---- MODULE Spec2Model ----
(***************************************************************************)
(* A model of gotui: the layered cell buffer and the diff renderer         *)
(* (screen/), the raw-mode terminal driver (terminal/), the input reader   *)
(* (input/) and the application loop (app/).                               *)
(*                                                                         *)
(* Runes and bytes are integers (code points).  A terminal that receives   *)
(* the escape-code stream is modelled token by token: a cursor position    *)
(* (CSI row;col H), an SGR sequence (CSI p m) or one character.            *)
(***************************************************************************)
EXTENDS Integers, Sequences, FiniteSets, TLC

VARIABLES
    \* ---- screen.Screen / screen.Buffer
    width, height,   \* Screen.width, Screen.height
    cells,           \* Screen.back.cells, indexed [z][y][x]
    front,           \* Screen.front, indexed [y][x]
    out,             \* tokens written to stdout by the last operation
    tty,             \* the terminal that receives the stream: grid, cursor, pen
    ret,             \* value returned by the last operation (Get, Flatten)
    lastOp,          \* name of the last screen operation
    lastOOB,         \* TRUE when the last operation's coordinates were out of range
    synced,          \* Render/ForceRender has run and no buffer write was made since
    nCalls,          \* number of Buffer calls (Get, Set, ..., Clear) made so far
    panicked,        \* a Go run-time panic (index out of range) has happened
    writeErr,        \* what os.Stdout.WriteString returned in the last Render or
                     \*   ForceRender: "nil" or an error
    \* ---- one parseInput call followed step by step
    dcInput,         \* the chunk parseInput was called with
    dcBefore,        \* data at the start of the last turn of parseInput's loop
    dcData,          \* data now: the bytes not yet consumed
    dcEvent,         \* the event the last parseSequence call returned
    dcConsumed,      \* the consumed count the last parseSequence call returned
    dcTurns,         \* number of turns of parseInput's loop so far
    \* ---- input.Reader and the consumer of its events
    rdPc,            \* where readLoop is: "idle", "select", "read", "parse",
                     \*   "send", "sendErr", "exited"
    rdData,          \* parseInput's data: the bytes of the chunk not yet decoded
    rdPending,       \* the event readLoop is about to send on eventChan
    eventChan,       \* Reader.eventChan: the buffered events, oldest first
    stopClosed,      \* Reader.stopChan has been closed
    received,        \* the events the consumer has received, oldest first
    readLog,         \* what Read returned so far, oldest first
    nReads,          \* number of Read calls that have returned
    \* ---- app.App and terminal.Terminal
    appPc,           \* where Run is: "idle", "new", "raw", "loop", "returned", "crashed"
    shellTTY,        \* the terminal attributes in effect before Run was called
    termios,         \* the attributes of the controlling terminal now
    originalTTY,     \* Terminal.originalTTY: "nil" or the attributes it saved
    altScreen,       \* the terminal shows the alternate screen
    cursorShown,     \* the terminal shows the cursor
    defers,          \* Run's deferred calls, in the order they were deferred
    running,         \* App.running
    quitClosed,      \* App.quitChan has been closed
    sigNotify,       \* signal.Notify(sigChan, ...) is in effect
    sigChan,         \* Run's sigChan (capacity 1)
    renderChan,      \* App.renderChan (capacity 1): number of queued requests
    hasScreen,       \* App.screen is set
    exitPath,        \* how Run ended: "none", "rawfail", "screenfail", "quit",
                     \*   "signal", "panic"
    quitCalls,       \* number of times the onQuit callback has run
    quitSignalSent,  \* the OS has sent SIGINT or SIGTERM while Notify was in force
    \* ---- one Buffer.DrawString call
    drawArgs,        \* the arguments of the last DrawString call, or NoDraw
    \* ---- one Style.Equals call
    eqS,             \* the receiver s of s.Equals(other)
    eqOther,         \* the argument other
    eqRet,           \* what Equals returned, or NoResult before the call
    \* ---- widget.TextInput
    tiValue,         \* TextInput.value: the runes of the text
    tiCursor,        \* TextInput.cursor
    tiOffset,        \* TextInput.offset
    tiFocused,       \* the TextInput's BaseWidget.focused
    tiEvent,         \* the event of the last HandleEvent call
    \* ---- widget.FocusManager and the widgets given to it
    fmWidgets,       \* FocusManager.widgets
    fmFocusedIndex,  \* FocusManager.focusedIndex
    wFocused         \* BaseWidget.focused of every widget

screenVars == <<width, height, cells, front, out, tty, ret, lastOp,
                lastOOB, synced, nCalls, panicked, writeErr>>

drawVars == <<drawArgs>>

styleVars == <<eqS, eqOther, eqRet>>

widgetVars == <<tiValue, tiCursor, tiOffset, tiFocused, tiEvent,
                fmWidgets, fmFocusedIndex, wFocused>>

decoderVars == <<dcInput, dcBefore, dcData, dcEvent, dcConsumed, dcTurns>>

readerVars == <<rdPc, rdData, rdPending, eventChan, stopClosed, received,
                readLog, nReads>>

appVars == <<appPc, shellTTY, termios, originalTTY, altScreen, cursorShown, defers,
             running, quitClosed, sigNotify, sigChan, renderChan, hasScreen,
             exitPath, quitCalls, quitSignalSent>>

vars == <<screenVars, readerVars, appVars, decoderVars, drawVars, styleVars, widgetVars>>

----------------------------------------------------------------------------
\* Bounds of the model

\* Buffer calls made on one screen
MaxCalls == 2

\* Read calls that return
MaxReads == 3

\* capacity of Reader.eventChan in the model (the code makes it 100)
EventChanCap == 2

\* longest chunk made of arbitrary bytes
MaxChunkLen == 3

\* depth of the buffer under analysis (NewScreenWithDepth's parameter)
Depth == 2

\* sizes the window-size query returns (width, height)
TermSizes == {<<2, 2>>}

----------------------------------------------------------------------------
\* The parts of the program a specification leaves alone

NoEvent == [type |-> "nil", Key |-> 0, Rune |-> 0, Modifier |-> 0, Err |-> ""]

NoDraw == [kind |-> "none"]

\* no DrawString call has been made
DrawIdle == drawArgs = NoDraw

\* no Equals call is being followed
NoStyle == [kind |-> "none"]

NoResult == [kind |-> "none"]

StyleIdle ==
    /\ eqS = NoStyle
    /\ eqOther = NoStyle
    /\ eqRet = NoResult

\* no TextInput and no FocusManager has been made
WidgetIdle ==
    /\ tiValue = <<>>
    /\ tiCursor = 0
    /\ tiOffset = 0
    /\ tiFocused = FALSE
    /\ tiEvent = NoEvent
    /\ fmWidgets = <<>>
    /\ fmFocusedIndex = -1
    /\ wFocused = <<>>

\* no parseInput call is being followed
DecoderIdle ==
    /\ dcInput = <<>>
    /\ dcBefore = <<>>
    /\ dcData = <<>>
    /\ dcEvent = NoEvent
    /\ dcConsumed = 0
    /\ dcTurns = 0

\* no Reader has been started
ReaderIdle ==
    /\ rdPc = "idle"
    /\ rdData = <<>>
    /\ rdPending = NoEvent
    /\ eventChan = <<>>
    /\ stopClosed = FALSE
    /\ received = <<>>
    /\ readLog = <<>>
    /\ nReads = 0

\* no App has been made: the terminal is as the shell left it
AppIdle ==
    /\ appPc = "idle"
    /\ shellTTY = "cooked"
    /\ termios = "cooked"
    /\ originalTTY = "nil"
    /\ altScreen = FALSE
    /\ cursorShown = TRUE
    /\ defers = <<>>
    /\ running = FALSE
    /\ quitClosed = FALSE
    /\ sigNotify = FALSE
    /\ sigChan = <<>>
    /\ renderChan = 0
    /\ hasScreen = FALSE
    /\ exitPath = "none"
    /\ quitCalls = 0
    /\ quitSignalSent = FALSE

----------------------------------------------------------------------------
\* terminal.Color, terminal.Style

Byte(n) == n % 256

NilColor == [kind |-> "nil", v |-> <<>>]

BasicColor(n) == [kind |-> "basic", v |-> <<n>>]

ColorDefault == BasicColor(255)

ColorRed == BasicColor(1)

\* Color.FG(): parameters of the SGR sequence
ColorFG(c) ==
    CASE c.kind = "basic" ->
            IF c.v[1] = 255 THEN <<39>>
            ELSE IF c.v[1] < 8 THEN <<Byte(30 + c.v[1])>>
            ELSE <<Byte(90 + (c.v[1] - 8))>>
      [] c.kind = "c256" -> <<38, 5, c.v[1]>>
      [] c.kind = "rgb" -> <<38, 2, c.v[1], c.v[2], c.v[3]>>

\* Color.BG()
ColorBG(c) ==
    CASE c.kind = "basic" ->
            IF c.v[1] = 255 THEN <<49>>
            ELSE IF c.v[1] < 8 THEN <<Byte(40 + c.v[1])>>
            ELSE <<Byte(100 + (c.v[1] - 8))>>
      [] c.kind = "c256" -> <<48, 5, c.v[1]>>
      [] c.kind = "rgb" -> <<48, 2, c.v[1], c.v[2], c.v[3]>>

\* the zero value Style{}
ZeroStyle ==
    [FG |-> NilColor, BG |-> NilColor, Bold |-> FALSE, Dim |-> FALSE,
     Italic |-> FALSE, Underline |-> FALSE, Blink |-> FALSE,
     Reverse |-> FALSE, Strike |-> FALSE]

DefaultStyle == [ZeroStyle EXCEPT !.FG = ColorDefault, !.BG = ColorDefault]

WithBold(s) == [s EXCEPT !.Bold = TRUE]

WithFG(s, c) == [s EXCEPT !.FG = c]

StyleEqualsIgnoresStrike(s, other) ==
    /\ s.FG = other.FG
    /\ s.BG = other.BG
    /\ s.Bold = other.Bold
    /\ s.Dim = other.Dim
    /\ s.Italic = other.Italic
    /\ s.Underline = other.Underline
    /\ s.Blink = other.Blink
    /\ s.Reverse = other.Reverse

StyleEquals(s, other) ==
    /\ s.FG = other.FG
    /\ s.BG = other.BG
    /\ s.Bold = other.Bold
    /\ s.Dim = other.Dim
    /\ s.Italic = other.Italic
    /\ s.Underline = other.Underline
    /\ s.Blink = other.Blink
    /\ s.Reverse = other.Reverse
    /\ s.Strike = other.Strike

Sgr(p) == [t |-> "sgr", p |-> p]

StyleReset == Sgr(<<0>>)

\* Style.Sequence(): reset, then colours, then attributes
Sequence(s) ==
    <<StyleReset>>
    \o (IF s.FG # NilColor THEN <<Sgr(ColorFG(s.FG))>> ELSE <<>>)
    \o (IF s.BG # NilColor THEN <<Sgr(ColorBG(s.BG))>> ELSE <<>>)
    \o (IF s.Bold THEN <<Sgr(<<1>>)>> ELSE <<>>)
    \o (IF s.Dim THEN <<Sgr(<<2>>)>> ELSE <<>>)
    \o (IF s.Italic THEN <<Sgr(<<3>>)>> ELSE <<>>)
    \o (IF s.Underline THEN <<Sgr(<<4>>)>> ELSE <<>>)
    \o (IF s.Blink THEN <<Sgr(<<5>>)>> ELSE <<>>)
    \o (IF s.Reverse THEN <<Sgr(<<7>>)>> ELSE <<>>)
    \o (IF s.Strike THEN <<Sgr(<<9>>)>> ELSE <<>>)

\* CursorMove(x, y): CSI y ; x H
CursorMove(x, y) == [t |-> "cup", p |-> <<y, x>>]

\* CursorHome: CSI H
CursorHome == [t |-> "cup", p |-> <<>>]

Chr(r) == [t |-> "chr", p |-> <<r>>]

----------------------------------------------------------------------------
\* screen.Cell

SpaceRune == 32

NewCell(r, style) == [Rune |-> r, Style |-> style]

EmptyCell == NewCell(SpaceRune, DefaultStyle)

CellEquals(c, other) == c.Rune = other.Rune /\ StyleEquals(c.Style, other.Style)

IsEmpty(c) == c.Rune = SpaceRune /\ StyleEquals(c.Style, DefaultStyle)

\* the literal Style{FG: ColorRed, Bold: true}: no background colour
BoldRed == WithBold(WithFG(ZeroStyle, ColorRed))

\* the arguments of the calls of the model
SetCells == {EmptyCell, NewCell(97, DefaultStyle), NewCell(SpaceRune, BoldRed)}

SetRunes == {97}

SetStyles == {BoldRed}

----------------------------------------------------------------------------
\* screen.Buffer

NewBuffer(w, h, d) ==
    [z \in 0..(d - 1) |-> [y \in 0..(h - 1) |-> [x \in 0..(w - 1) |-> EmptyCell]]]

NewFront(w, h) == [y \in 0..(h - 1) |-> [x \in 0..(w - 1) |-> EmptyCell]]

\* the bounds test at the head of Get, Set, SetRune and SetStyle
OutOfRangeOffByOne(w, h, d, x, y, z) ==
    x < 0 \/ x > w \/ y < 0 \/ y > h \/ z < 0 \/ z > d

OutOfRange(w, h, d, x, y, z) ==
    x < 0 \/ x >= w \/ y < 0 \/ y >= h \/ z < 0 \/ z >= d

\* Go's index check on b.cells[z][y][x]
IndexOK(b, x, y, z) ==
    /\ z \in DOMAIN b
    /\ y \in DOMAIN b[z]
    /\ x \in DOMAIN b[z][y]

\* a store b.cells[z][y][x] = f(old): the new cells and whether the index faulted
Store(b, x, y, z, c) ==
    IF IndexOK(b, x, y, z)
    THEN [cells |-> [b EXCEPT ![z][y][x] = c], panic |-> FALSE]
    ELSE [cells |-> b, panic |-> TRUE]

NoStore(b) == [cells |-> b, panic |-> FALSE]

Get(b, w, h, x, y, z) ==
    IF OutOfRange(w, h, Depth, x, y, z) THEN [cell |-> EmptyCell, panic |-> FALSE]
    ELSE IF IndexOK(b, x, y, z) THEN [cell |-> b[z][y][x], panic |-> FALSE]
    ELSE [cell |-> EmptyCell, panic |-> TRUE]

Set(b, w, h, x, y, z, c) ==
    IF OutOfRange(w, h, Depth, x, y, z) THEN NoStore(b) ELSE Store(b, x, y, z, c)

SetRune(b, w, h, x, y, z, r) ==
    IF OutOfRange(w, h, Depth, x, y, z) THEN NoStore(b)
    ELSE IF IndexOK(b, x, y, z)
         THEN Store(b, x, y, z, [b[z][y][x] EXCEPT !.Rune = r])
         ELSE [cells |-> b, panic |-> TRUE]

SetStyle(b, w, h, x, y, z, s) ==
    IF OutOfRange(w, h, Depth, x, y, z) THEN NoStore(b)
    ELSE IF IndexOK(b, x, y, z)
         THEN Store(b, x, y, z, [b[z][y][x] EXCEPT !.Style = s])
         ELSE [cells |-> b, panic |-> TRUE]

\* Fill: every cell of every layer
FillBottomLayerOnly(b, c) ==
    [z \in DOMAIN b |->
        [y \in DOMAIN b[z] |-> [x \in DOMAIN b[z][y] |-> IF z = 0 THEN c ELSE b[z][y][x]]]]

Fill(b, c) ==
    [z \in DOMAIN b |-> [y \in DOMAIN b[z] |-> [x \in DOMAIN b[z][y] |-> c]]]

Clear(b) == Fill(b, EmptyCell)

\* the inner loop of Flatten: composite z = 0 .. depth-1, skipping empty cells
RECURSIVE FlattenCellLowestWins(_, _, _, _, _)
FlattenCellLowestWins(b, x, y, z, acc) ==
    IF z >= Depth THEN acc
    ELSE FlattenCellLowestWins(b, x, y, z + 1,
            IF ~IsEmpty(b[z][y][x]) /\ IsEmpty(acc) THEN b[z][y][x] ELSE acc)

RECURSIVE FlattenCellOpaque(_, _, _, _, _)
FlattenCellOpaque(b, x, y, z, acc) ==
    IF z >= Depth THEN acc
    ELSE FlattenCellOpaque(b, x, y, z + 1, b[z][y][x])

RECURSIVE FlattenCell(_, _, _, _, _)
FlattenCell(b, x, y, z, acc) ==
    IF z >= Depth THEN acc
    ELSE FlattenCell(b, x, y, z + 1,
            IF ~IsEmpty(b[z][y][x]) THEN b[z][y][x] ELSE acc)

Flatten(b, w, h) ==
    [y \in 0..(h - 1) |-> [x \in 0..(w - 1) |-> FlattenCell(b, x, y, 0, EmptyCell)]]

----------------------------------------------------------------------------
\* The terminal that receives the stream

DefaultPen ==
    [fg |-> <<39>>, bg |-> <<49>>, bold |-> FALSE, dim |-> FALSE,
     italic |-> FALSE, underline |-> FALSE, blink |-> FALSE,
     reverse |-> FALSE, strike |-> FALSE]

IsFgCode(n) == n \in 30..39 \/ n \in 90..97

IsBgCode(n) == n \in 40..49 \/ n \in 100..107

\* one SGR sequence applied to the pen
ApplySgr(pen, p) ==
    IF p = <<>> THEN DefaultPen
    ELSE CASE p[1] = 0 -> DefaultPen
           [] p[1] = 1 -> [pen EXCEPT !.bold = TRUE]
           [] p[1] = 2 -> [pen EXCEPT !.dim = TRUE]
           [] p[1] = 3 -> [pen EXCEPT !.italic = TRUE]
           [] p[1] = 4 -> [pen EXCEPT !.underline = TRUE]
           [] p[1] = 5 -> [pen EXCEPT !.blink = TRUE]
           [] p[1] = 7 -> [pen EXCEPT !.reverse = TRUE]
           [] p[1] = 9 -> [pen EXCEPT !.strike = TRUE]
           [] IsFgCode(p[1]) -> [pen EXCEPT !.fg = p]
           [] IsBgCode(p[1]) -> [pen EXCEPT !.bg = p]
           [] OTHER -> pen

Clamp(n, lo, hi) == IF n < lo THEN lo ELSE IF n > hi THEN hi ELSE n

BlankGlyph == [Rune |-> SpaceRune, Pen |-> DefaultPen]

NewTty(w, h) ==
    [grid |-> [y \in 0..(h - 1) |-> [x \in 0..(w - 1) |-> BlankGlyph]],
     row |-> 0, col |-> 0, pen |-> DefaultPen]

\* the grid scrolled up by one line
ScrollUp(g, w, h) ==
    [y \in 0..(h - 1) |->
        IF y < h - 1 THEN g[y + 1] ELSE [x \in 0..(w - 1) |-> BlankGlyph]]

LineFeed(t, w, h) ==
    IF t.row = h - 1 THEN [t EXCEPT !.grid = ScrollUp(t.grid, w, h)]
    ELSE [t EXCEPT !.row = t.row + 1]

\* a printable character: written at the cursor (after a pending wrap), which
\* then advances by one column
PutChar(t, r, w, h) ==
    LET u == IF t.col >= w THEN [LineFeed(t, w, h) EXCEPT !.col = 0] ELSE t
    IN [u EXCEPT !.grid[u.row][u.col] = [Rune |-> r, Pen |-> u.pen],
                 !.col = u.col + 1]

TtyApply(t, tok, w, h) ==
    CASE tok.t = "cup" ->
            IF tok.p = <<>> THEN [t EXCEPT !.row = 0, !.col = 0]
            ELSE [t EXCEPT !.row = Clamp(tok.p[1] - 1, 0, h - 1),
                           !.col = Clamp(tok.p[2] - 1, 0, w - 1)]
      [] tok.t = "sgr" -> [t EXCEPT !.pen = ApplySgr(t.pen, tok.p)]
      [] tok.t = "chr" ->
            IF tok.p[1] = 13 THEN [t EXCEPT !.col = 0]
            ELSE IF tok.p[1] = 10 THEN LineFeed(t, w, h)
            ELSE PutChar(t, tok.p[1], w, h)

RECURSIVE TtyRun(_, _, _, _)
TtyRun(t, toks, w, h) ==
    IF toks = <<>> THEN t
    ELSE TtyRun(TtyApply(t, Head(toks), w, h), Tail(toks), w, h)

\* what a terminal shows for a cell: its rune in the rendition of its style
PenOf(s) ==
    [fg |-> IF s.FG = NilColor THEN <<39>> ELSE ColorFG(s.FG),
     bg |-> IF s.BG = NilColor THEN <<49>> ELSE ColorBG(s.BG),
     bold |-> s.Bold, dim |-> s.Dim, italic |-> s.Italic,
     underline |-> s.Underline, blink |-> s.Blink, reverse |-> s.Reverse,
     strike |-> s.Strike]

Shown(img) ==
    [y \in DOMAIN img |->
        [x \in DOMAIN img[y] |-> [Rune |-> img[y][x].Rune, Pen |-> PenOf(img[y][x].Style)]]]

----------------------------------------------------------------------------
\* screen.Screen: Render and ForceRender

ScanStart ==
    [out |-> <<>>, lastX |-> -1, lastY |-> -1, lastStyle |-> ZeroStyle,
     styleSet |-> FALSE]

\* the body of Render's loop for the cell at (x, y)
RenderCellNoRowTest(st, backCell, frontCell, x, y) ==
    IF CellEquals(backCell, frontCell) THEN st
    ELSE LET move == IF x # st.lastX + 1
                     THEN <<CursorMove(x + 1, y + 1)>> ELSE <<>>
             restyle == ~st.styleSet \/ ~StyleEquals(backCell.Style, st.lastStyle)
         IN [out |-> st.out \o move
                       \o (IF restyle THEN Sequence(backCell.Style) ELSE <<>>)
                       \o <<Chr(backCell.Rune)>>,
             lastX |-> x, lastY |-> y,
             lastStyle |-> IF restyle THEN backCell.Style ELSE st.lastStyle,
             styleSet |-> TRUE]

RenderCellAlways(st, backCell, frontCell, x, y) ==
    LET move == IF x # st.lastX + 1 \/ y # st.lastY
                THEN <<CursorMove(x + 1, y + 1)>> ELSE <<>>
        restyle == ~st.styleSet \/ ~StyleEquals(backCell.Style, st.lastStyle)
    IN [out |-> st.out \o move
                  \o (IF restyle THEN Sequence(backCell.Style) ELSE <<>>)
                  \o <<Chr(backCell.Rune)>>,
        lastX |-> x, lastY |-> y,
        lastStyle |-> IF restyle THEN backCell.Style ELSE st.lastStyle,
        styleSet |-> TRUE]

RenderCellRestyleAlways(st, backCell, frontCell, x, y) ==
    IF CellEquals(backCell, frontCell) THEN st
    ELSE LET move == IF x # st.lastX + 1 \/ y # st.lastY
                     THEN <<CursorMove(x + 1, y + 1)>> ELSE <<>>
         IN [out |-> st.out \o move
                       \o Sequence(backCell.Style)
                       \o <<Chr(backCell.Rune)>>,
             lastX |-> x, lastY |-> y,
             lastStyle |-> backCell.Style,
             styleSet |-> TRUE]

RenderCell(st, backCell, frontCell, x, y) ==
    IF CellEquals(backCell, frontCell) THEN st
    ELSE LET move == IF x # st.lastX + 1 \/ y # st.lastY
                     THEN <<CursorMove(x + 1, y + 1)>> ELSE <<>>
             restyle == ~st.styleSet \/ ~StyleEquals(backCell.Style, st.lastStyle)
         IN [out |-> st.out \o move
                       \o (IF restyle THEN Sequence(backCell.Style) ELSE <<>>)
                       \o <<Chr(backCell.Rune)>>,
             lastX |-> x, lastY |-> y,
             lastStyle |-> IF restyle THEN backCell.Style ELSE st.lastStyle,
             styleSet |-> TRUE]

\* Render's scan, row-major: cell i is (i % w, i \div w)
RECURSIVE RenderScan(_, _, _, _, _, _)
RenderScan(flattened, fr, w, h, i, st) ==
    IF i >= w * h THEN st
    ELSE RenderScan(flattened, fr, w, h, i + 1,
            RenderCell(st, flattened[i \div w][i % w], fr[i \div w][i % w],
                       i % w, i \div w))

\* the string Render accumulates
RenderOutputAlwaysReset(flattened, fr, w, h) ==
    RenderScan(flattened, fr, w, h, 0, ScanStart).out \o <<StyleReset>>

RenderOutput(flattened, fr, w, h) ==
    LET st == RenderScan(flattened, fr, w, h, 0, ScanStart)
    IN st.out \o (IF st.styleSet THEN <<StyleReset>> ELSE <<>>)

\* the body of ForceRender's loop for the cell at (x, y)
ForceCell(st, cell, x, y, w, h) ==
    LET restyle == ~st.styleSet \/ ~StyleEquals(cell.Style, st.lastStyle)
    IN [out |-> st.out
                  \o (IF restyle THEN Sequence(cell.Style) ELSE <<>>)
                  \o <<Chr(cell.Rune)>>
                  \o (IF x = w - 1 /\ y < h - 1 THEN <<Chr(13), Chr(10)>> ELSE <<>>),
        lastX |-> x, lastY |-> y,
        lastStyle |-> IF restyle THEN cell.Style ELSE st.lastStyle,
        styleSet |-> TRUE]

RECURSIVE ForceScan(_, _, _, _, _)
ForceScan(flattened, w, h, i, st) ==
    IF i >= w * h THEN st
    ELSE ForceScan(flattened, w, h, i + 1,
            ForceCell(st, flattened[i \div w][i % w], i % w, i \div w, w, h))

\* the string ForceRender accumulates
ForceRenderOutput(flattened, w, h) ==
    ForceScan(flattened, w, h, 0, [ScanStart EXCEPT !.out = <<CursorHome>>]).out
    \o <<StyleReset>>

\* "copy(s.front[y], flattened[y])" for every row
CopyToFrontSkipLastRow(fr, flattened, h) ==
    [y \in DOMAIN fr |-> IF y < h - 1 THEN flattened[y] ELSE fr[y]]

CopyToFront(fr, flattened, h) ==
    [y \in DOMAIN fr |-> IF y < h THEN flattened[y] ELSE fr[y]]

----------------------------------------------------------------------------
\* Operations on a screen

InRange(x, y, z) ==
    x \in 0..(width - 1) /\ y \in 0..(height - 1) /\ z \in 0..(Depth - 1)

\* the coordinates the calls of the model use: every cell of the buffer, and
\* points with one or with all coordinates just outside it
Coords ==
    {<<x, y, z>> : x \in 0..(width - 1), y \in 0..(height - 1), z \in 0..(Depth - 1)}
    \cup {<<-1, -1, 0>>, <<width, height, Depth>>,
          <<-1, 0, 0>>, <<width, 0, 0>>,
          <<0, -1, 0>>, <<0, height, 0>>,
          <<0, 0, -1>>, <<0, 0, Depth>>}

CanCall == ~panicked /\ nCalls < MaxCalls

NoRet == [kind |-> "none"]

\* NewScreenWithDepth, on a terminal whose alternate screen is blank
ScreenInit ==
    \E sz \in TermSizes :
        /\ width = sz[1]
        /\ height = sz[2]
        /\ cells = NewBuffer(sz[1], sz[2], Depth)
        /\ front = NewFront(sz[1], sz[2])
        /\ tty = NewTty(sz[1], sz[2])
        /\ out = <<>>
        /\ ret = NoRet
        /\ lastOp = "NewScreen"
        /\ lastOOB = FALSE
        /\ synced = FALSE
        /\ nCalls = 0
        /\ panicked = FALSE
        /\ writeErr = "nil"
        /\ ReaderIdle
        /\ AppIdle
        /\ DecoderIdle
        /\ DrawIdle
        /\ WidgetIdle
        /\ StyleIdle

\* a buffer write: the store, no terminal output
Wrote(op, res, oob) ==
    /\ cells' = res.cells
    /\ panicked' = res.panic
    /\ lastOp' = op
    /\ lastOOB' = oob
    /\ nCalls' = nCalls + 1
    /\ out' = <<>>
    /\ ret' = NoRet
    /\ synced' = FALSE
    /\ UNCHANGED <<width, height, front, tty, writeErr>>
    /\ UNCHANGED <<readerVars, appVars, decoderVars, drawVars, styleVars, widgetVars>>

DoSet ==
    /\ CanCall
    /\ \E p \in Coords, c \in SetCells :
          Wrote("Set", Set(cells, width, height, p[1], p[2], p[3], c),
                ~InRange(p[1], p[2], p[3]))

DoSetRune ==
    /\ CanCall
    /\ \E p \in Coords, r \in SetRunes :
          Wrote("SetRune", SetRune(cells, width, height, p[1], p[2], p[3], r),
                ~InRange(p[1], p[2], p[3]))

DoSetStyle ==
    /\ CanCall
    /\ \E p \in Coords, s \in SetStyles :
          Wrote("SetStyle", SetStyle(cells, width, height, p[1], p[2], p[3], s),
                ~InRange(p[1], p[2], p[3]))

DoFill ==
    /\ CanCall
    /\ \E c \in SetCells : Wrote("Fill", NoStore(Fill(cells, c)), FALSE)

DoClear ==
    /\ CanCall
    /\ Wrote("Clear", NoStore(Clear(cells)), FALSE)

DoGet ==
    /\ CanCall
    /\ \E p \in Coords :
          LET res == Get(cells, width, height, p[1], p[2], p[3])
          IN /\ ret' = [kind |-> "cell", cell |-> res.cell]
             /\ panicked' = res.panic
             /\ lastOp' = "Get"
             /\ lastOOB' = ~InRange(p[1], p[2], p[3])
             /\ nCalls' = nCalls + 1
             /\ out' = <<>>
             /\ UNCHANGED <<width, height, cells, front, tty, synced, writeErr>>
             /\ UNCHANGED <<readerVars, appVars, decoderVars, drawVars, styleVars, widgetVars>>

\* Buffer.Flatten called on its own: reads the layers, returns a fresh image
DoFlattenInPlace ==
    /\ ~panicked
    /\ ret' = [kind |-> "image", image |-> Flatten(cells, width, height)]
    /\ cells' = [cells EXCEPT ![0] = Flatten(cells, width, height)]
    /\ lastOp' = "Flatten"
    /\ lastOOB' = FALSE
    /\ out' = <<>>
    /\ UNCHANGED <<width, height, front, tty, synced, nCalls, panicked, writeErr>>
    /\ UNCHANGED <<readerVars, appVars, decoderVars, drawVars, styleVars, widgetVars>>

DoFlatten ==
    /\ ~panicked
    /\ ret' = [kind |-> "image", image |-> Flatten(cells, width, height)]
    /\ lastOp' = "Flatten"
    /\ lastOOB' = FALSE
    /\ out' = <<>>
    /\ UNCHANGED <<width, height, cells, front, tty, synced, nCalls, panicked,
                   writeErr>>
    /\ UNCHANGED <<readerVars, appVars, decoderVars, drawVars, styleVars, widgetVars>>

DoRender ==
    /\ ~panicked
    /\ LET flattened == Flatten(cells, width, height)
       IN /\ out' = RenderOutput(flattened, front, width, height)
          /\ tty' = TtyRun(tty, out', width, height)
          /\ front' = CopyToFront(front, flattened, height)
    /\ lastOp' = "Render"
    /\ lastOOB' = FALSE
    /\ ret' = NoRet
    /\ synced' = TRUE
    /\ writeErr' = "nil"
    /\ UNCHANGED <<width, height, cells, nCalls, panicked>>
    /\ UNCHANGED <<readerVars, appVars, decoderVars, drawVars, styleVars, widgetVars>>

DoForceRenderChangedOnly ==
    /\ ~panicked
    /\ LET flattened == Flatten(cells, width, height)
       IN /\ out' = RenderOutput(flattened, front, width, height)
          /\ tty' = TtyRun(tty, out', width, height)
          /\ front' = CopyToFront(front, flattened, height)
    /\ lastOp' = "ForceRender"
    /\ lastOOB' = FALSE
    /\ ret' = NoRet
    /\ synced' = TRUE
    /\ writeErr' = "nil"
    /\ UNCHANGED <<width, height, cells, nCalls, panicked>>
    /\ UNCHANGED <<readerVars, appVars, decoderVars, drawVars, styleVars, widgetVars>>

DoForceRender ==
    /\ ~panicked
    /\ LET flattened == Flatten(cells, width, height)
       IN /\ out' = ForceRenderOutput(flattened, width, height)
          /\ tty' = TtyRun(tty, out', width, height)
          /\ front' = CopyToFront(front, flattened, height)
    /\ lastOp' = "ForceRender"
    /\ lastOOB' = FALSE
    /\ ret' = NoRet
    /\ synced' = TRUE
    /\ writeErr' = "nil"
    /\ UNCHANGED <<width, height, cells, nCalls, panicked>>
    /\ UNCHANGED <<readerVars, appVars, decoderVars, drawVars, styleVars, widgetVars>>

ScreenNext ==
    \/ DoSet
    \/ DoSetRune
    \/ DoSetStyle
    \/ DoFill
    \/ DoClear
    \/ DoGet
    \/ DoFlatten
    \/ DoRender
    \/ DoForceRender

ScreenSpec == ScreenInit /\ [][ScreenNext]_vars

\* errors os.Stdout.WriteString may return
WriteErrors == {"EPIPE"}

\* how many tokens of a stream of n reach the terminal when the write fails:
\* none, or the first half
ShortWrites(n) == {0, n \div 2}

\* Render when the write to stdout fails after k tokens of the stream: the
\* result of WriteString is dropped, Render has no result, front is replaced
DoRenderWriteFails ==
    /\ ~panicked
    /\ LET flattened == Flatten(cells, width, height)
       IN /\ out' = RenderOutput(flattened, front, width, height)
          /\ Len(out') > 0
          /\ \E k \in ShortWrites(Len(out')) :
                tty' = TtyRun(tty, SubSeq(out', 1, k), width, height)
          /\ front' = CopyToFront(front, flattened, height)
    /\ \E e \in WriteErrors : writeErr' = e
    /\ lastOp' = "Render"
    /\ lastOOB' = FALSE
    /\ ret' = NoRet
    /\ synced' = TRUE
    /\ UNCHANGED <<width, height, cells, nCalls, panicked>>
    /\ UNCHANGED <<readerVars, appVars, decoderVars, drawVars, styleVars, widgetVars>>

\* ForceRender when the write to stdout fails after k tokens of the stream
DoForceRenderWriteFails ==
    /\ ~panicked
    /\ LET flattened == Flatten(cells, width, height)
       IN /\ out' = ForceRenderOutput(flattened, width, height)
          /\ \E k \in ShortWrites(Len(out')) :
                tty' = TtyRun(tty, SubSeq(out', 1, k), width, height)
          /\ front' = CopyToFront(front, flattened, height)
    /\ \E e \in WriteErrors : writeErr' = e
    /\ lastOp' = "ForceRender"
    /\ lastOOB' = FALSE
    /\ ret' = NoRet
    /\ synced' = TRUE
    /\ UNCHANGED <<width, height, cells, nCalls, panicked>>
    /\ UNCHANGED <<readerVars, appVars, decoderVars, drawVars, styleVars, widgetVars>>

ScreenIONext ==
    \/ ScreenNext
    \/ DoRenderWriteFails
    \/ DoForceRenderWriteFails

\* the screen on a terminal whose output stream can fail
ScreenIOSpec == ScreenInit /\ [][ScreenIONext]_vars

----------------------------------------------------------------------------
\* input: keys, modifiers, events

KeyNone == 0
KeyEnter == 1
KeyTab == 2
KeyBackspace == 3
KeyEscape == 4
KeySpace == 5
KeyDelete == 6
KeyUp == 7
KeyDown == 8
KeyLeft == 9
KeyRight == 10
KeyHome == 11
KeyEnd == 12
KeyPageUp == 13
KeyPageDown == 14
KeyInsert == 15
KeyF1 == 16
KeyF2 == 17
KeyF3 == 18
KeyF4 == 19
KeyF5 == 20
KeyF6 == 21
KeyF7 == 22
KeyF8 == 23
KeyF9 == 24
KeyF10 == 25
KeyF11 == 26
KeyF12 == 27
KeyRune == 28

ModNone == 0
ModShift == 2
ModAlt == 4
ModCtrl == 8

\* a | b and a & b on non-negative integers
RECURSIVE BitOr(_, _)
BitOr(a, b) ==
    IF a = 0 THEN b
    ELSE IF b = 0 THEN a
    ELSE (IF a % 2 = 1 \/ b % 2 = 1 THEN 1 ELSE 0) + 2 * BitOr(a \div 2, b \div 2)

RECURSIVE BitAnd(_, _)
BitAnd(a, b) ==
    IF a = 0 \/ b = 0 THEN 0
    ELSE (IF a % 2 = 1 /\ b % 2 = 1 THEN 1 ELSE 0) + 2 * BitAnd(a \div 2, b \div 2)

\* KeyEvent{Key: k, Rune: r, Modifier: m}
KeyEvent(k, r, m) == [type |-> "key", Key |-> k, Rune |-> r, Modifier |-> m, Err |-> ""]

\* ErrorEvent{Err: e}
ErrorEvent(e) == [type |-> "error", Key |-> 0, Rune |-> 0, Modifier |-> 0, Err |-> e]

\* a decode step's result: the event and the number of bytes consumed
Decoded(ev, n) == [ev |-> ev, n |-> n]

\* data[i:] of a Go slice, i counted from 0
From(data, i) == SubSeq(data, i + 1, Len(data))

\* data[i] of a Go slice, i counted from 0
At(data, i) == data[i + 1]

IsDigit(b) == b >= 48 /\ b <= 57

\* the loop "if digit: n = n*10 + digit" over params
RECURSIVE DigitsValue(_, _)
DigitsValue(params, n) ==
    IF params = <<>> THEN n
    ELSE DigitsValue(Tail(params),
            IF IsDigit(Head(params)) THEN n * 10 + (Head(params) - 48) ELSE n)

decodeModifierNoDecrement(n) ==
    IF n <= 1 THEN ModNone
    ELSE LET m == n
         IN BitOr(BitOr(IF BitAnd(m, 1) # 0 THEN ModShift ELSE ModNone,
                        IF BitAnd(m, 2) # 0 THEN ModAlt ELSE ModNone),
                  IF BitAnd(m, 4) # 0 THEN ModCtrl ELSE ModNone)

decodeModifier(n) ==
    IF n <= 1 THEN ModNone
    ELSE LET m == n - 1
         IN BitOr(BitOr(IF BitAnd(m, 1) # 0 THEN ModShift ELSE ModNone,
                        IF BitAnd(m, 2) # 0 THEN ModAlt ELSE ModNone),
                  IF BitAnd(m, 4) # 0 THEN ModCtrl ELSE ModNone)

\* index (from 0) of the first ';' of params, or -1
RECURSIVE IndexOfSemicolon(_, _)
IndexOfSemicolon(params, i) ==
    IF i >= Len(params) THEN -1
    ELSE IF At(params, i) = 59 THEN i
    ELSE IndexOfSemicolon(params, i + 1)

\* index (from 0) of the first ';' of params that has a byte after it, or -1
RECURSIVE IndexOfModifier(_, _)
IndexOfModifier(params, i) ==
    IF i >= Len(params) THEN -1
    ELSE IF At(params, i) = 59 /\ i + 1 < Len(params) THEN i
    ELSE IndexOfModifier(params, i + 1)

parseCSIModifier(params) ==
    LET i == IndexOfModifier(params, 0)
    IN IF i < 0 THEN ModNone
       ELSE decodeModifier(DigitsValue(From(params, i + 1), 0))

\* the number before the first ';' (or the whole of params)
TildeNumber(params) ==
    LET i == IndexOfSemicolon(params, 0)
    IN DigitsValue(IF i < 0 THEN params ELSE SubSeq(params, 1, i), 0)

parseTildeSequenceNoModifier(params) ==
    LET n == TildeNumber(params)
        i == IndexOfSemicolon(params, 0)
        mod == ModNone
    IN CASE n = 1 -> KeyEvent(KeyHome, 0, mod)
         [] n = 2 -> KeyEvent(KeyInsert, 0, mod)
         [] n = 3 -> KeyEvent(KeyDelete, 0, mod)
         [] n = 4 -> KeyEvent(KeyEnd, 0, mod)
         [] n = 5 -> KeyEvent(KeyPageUp, 0, mod)
         [] n = 6 -> KeyEvent(KeyPageDown, 0, mod)
         [] n = 7 -> KeyEvent(KeyHome, 0, mod)
         [] n = 8 -> KeyEvent(KeyEnd, 0, mod)
         [] n = 11 -> KeyEvent(KeyF1, 0, mod)
         [] n = 12 -> KeyEvent(KeyF2, 0, mod)
         [] n = 13 -> KeyEvent(KeyF3, 0, mod)
         [] n = 14 -> KeyEvent(KeyF4, 0, mod)
         [] n = 15 -> KeyEvent(KeyF5, 0, mod)
         [] n = 17 -> KeyEvent(KeyF6, 0, mod)
         [] n = 18 -> KeyEvent(KeyF7, 0, mod)
         [] n = 19 -> KeyEvent(KeyF8, 0, mod)
         [] n = 20 -> KeyEvent(KeyF9, 0, mod)
         [] n = 21 -> KeyEvent(KeyF10, 0, mod)
         [] n = 23 -> KeyEvent(KeyF11, 0, mod)
         [] n = 24 -> KeyEvent(KeyF12, 0, mod)
         [] OTHER -> KeyEvent(KeyEscape, 0, ModNone)

parseTildeSequence(params) ==
    LET n == TildeNumber(params)
        i == IndexOfSemicolon(params, 0)
        mod == IF i >= 0 THEN decodeModifier(DigitsValue(From(params, i + 1), 0))
               ELSE ModNone
    IN CASE n = 1 -> KeyEvent(KeyHome, 0, mod)
         [] n = 2 -> KeyEvent(KeyInsert, 0, mod)
         [] n = 3 -> KeyEvent(KeyDelete, 0, mod)
         [] n = 4 -> KeyEvent(KeyEnd, 0, mod)
         [] n = 5 -> KeyEvent(KeyPageUp, 0, mod)
         [] n = 6 -> KeyEvent(KeyPageDown, 0, mod)
         [] n = 7 -> KeyEvent(KeyHome, 0, mod)
         [] n = 8 -> KeyEvent(KeyEnd, 0, mod)
         [] n = 11 -> KeyEvent(KeyF1, 0, mod)
         [] n = 12 -> KeyEvent(KeyF2, 0, mod)
         [] n = 13 -> KeyEvent(KeyF3, 0, mod)
         [] n = 14 -> KeyEvent(KeyF4, 0, mod)
         [] n = 15 -> KeyEvent(KeyF5, 0, mod)
         [] n = 17 -> KeyEvent(KeyF6, 0, mod)
         [] n = 18 -> KeyEvent(KeyF7, 0, mod)
         [] n = 19 -> KeyEvent(KeyF8, 0, mod)
         [] n = 20 -> KeyEvent(KeyF9, 0, mod)
         [] n = 21 -> KeyEvent(KeyF10, 0, mod)
         [] n = 23 -> KeyEvent(KeyF11, 0, mod)
         [] n = 24 -> KeyEvent(KeyF12, 0, mod)
         [] OTHER -> KeyEvent(KeyEscape, 0, ModNone)

\* first index >= i whose byte is outside lo..hi, or len(data)
RECURSIVE SkipRange(_, _, _, _)
SkipRange(data, i, lo, hi) ==
    IF i < Len(data) /\ At(data, i) >= lo /\ At(data, i) <= hi
    THEN SkipRange(data, i + 1, lo, hi)
    ELSE i

parseCSIErrorOnUnknown(data) ==
    IF Len(data) < 3 THEN Decoded(KeyEvent(KeyEscape, 0, ModNone), 1)
    ELSE LET i == SkipRange(data, SkipRange(data, 2, 48, 63), 32, 47)
         IN IF i >= Len(data) THEN Decoded(KeyEvent(KeyEscape, 0, ModNone), 1)
            ELSE LET finalByte == At(data, i)
                     params == SubSeq(data, 3, i)
                 IN CASE finalByte = 65 ->
                            Decoded(KeyEvent(KeyUp, 0, parseCSIModifier(params)), i + 1)
                      [] finalByte = 66 ->
                            Decoded(KeyEvent(KeyDown, 0, parseCSIModifier(params)), i + 1)
                      [] finalByte = 67 ->
                            Decoded(KeyEvent(KeyRight, 0, parseCSIModifier(params)), i + 1)
                      [] finalByte = 68 ->
                            Decoded(KeyEvent(KeyLeft, 0, parseCSIModifier(params)), i + 1)
                      [] finalByte = 72 ->
                            Decoded(KeyEvent(KeyHome, 0, parseCSIModifier(params)), i + 1)
                      [] finalByte = 70 ->
                            Decoded(KeyEvent(KeyEnd, 0, parseCSIModifier(params)), i + 1)
                      [] finalByte = 126 -> Decoded(parseTildeSequence(params), i + 1)
                      [] finalByte = 90 -> Decoded(KeyEvent(KeyTab, 0, ModShift), i + 1)
                      [] finalByte >= 80 /\ finalByte <= 83 ->
                            Decoded(KeyEvent(KeyF1 + (finalByte - 80), 0, ModNone), i + 1)
                      [] OTHER -> Decoded(ErrorEvent("unknown sequence"), i + 1)

parseCSI(data) ==
    IF Len(data) < 3 THEN Decoded(KeyEvent(KeyEscape, 0, ModNone), 1)
    ELSE LET i == SkipRange(data, SkipRange(data, 2, 48, 63), 32, 47)
         IN IF i >= Len(data) THEN Decoded(KeyEvent(KeyEscape, 0, ModNone), 1)
            ELSE LET finalByte == At(data, i)
                     params == SubSeq(data, 3, i)
                 IN CASE finalByte = 65 ->
                            Decoded(KeyEvent(KeyUp, 0, parseCSIModifier(params)), i + 1)
                      [] finalByte = 66 ->
                            Decoded(KeyEvent(KeyDown, 0, parseCSIModifier(params)), i + 1)
                      [] finalByte = 67 ->
                            Decoded(KeyEvent(KeyRight, 0, parseCSIModifier(params)), i + 1)
                      [] finalByte = 68 ->
                            Decoded(KeyEvent(KeyLeft, 0, parseCSIModifier(params)), i + 1)
                      [] finalByte = 72 ->
                            Decoded(KeyEvent(KeyHome, 0, parseCSIModifier(params)), i + 1)
                      [] finalByte = 70 ->
                            Decoded(KeyEvent(KeyEnd, 0, parseCSIModifier(params)), i + 1)
                      [] finalByte = 126 -> Decoded(parseTildeSequence(params), i + 1)
                      [] finalByte = 90 -> Decoded(KeyEvent(KeyTab, 0, ModShift), i + 1)
                      [] finalByte >= 80 /\ finalByte <= 83 ->
                            Decoded(KeyEvent(KeyF1 + (finalByte - 80), 0, ModNone), i + 1)
                      [] OTHER -> Decoded(KeyEvent(KeyEscape, 0, ModNone), 1)

parseSS3CursorOnly(data) ==
    IF Len(data) < 3 THEN Decoded(KeyEvent(KeyEscape, 0, ModNone), 1)
    ELSE CASE At(data, 2) = 65 -> Decoded(KeyEvent(KeyUp, 0, ModNone), 3)
           [] At(data, 2) = 66 -> Decoded(KeyEvent(KeyDown, 0, ModNone), 3)
           [] At(data, 2) = 67 -> Decoded(KeyEvent(KeyRight, 0, ModNone), 3)
           [] At(data, 2) = 68 -> Decoded(KeyEvent(KeyLeft, 0, ModNone), 3)
           [] At(data, 2) = 72 -> Decoded(KeyEvent(KeyHome, 0, ModNone), 3)
           [] At(data, 2) = 70 -> Decoded(KeyEvent(KeyEnd, 0, ModNone), 3)
           [] OTHER -> Decoded(KeyEvent(KeyEscape, 0, ModNone), 1)

parseSS3(data) ==
    IF Len(data) < 3 THEN Decoded(KeyEvent(KeyEscape, 0, ModNone), 1)
    ELSE CASE At(data, 2) = 65 -> Decoded(KeyEvent(KeyUp, 0, ModNone), 3)
           [] At(data, 2) = 66 -> Decoded(KeyEvent(KeyDown, 0, ModNone), 3)
           [] At(data, 2) = 67 -> Decoded(KeyEvent(KeyRight, 0, ModNone), 3)
           [] At(data, 2) = 68 -> Decoded(KeyEvent(KeyLeft, 0, ModNone), 3)
           [] At(data, 2) = 72 -> Decoded(KeyEvent(KeyHome, 0, ModNone), 3)
           [] At(data, 2) = 70 -> Decoded(KeyEvent(KeyEnd, 0, ModNone), 3)
           [] At(data, 2) = 80 -> Decoded(KeyEvent(KeyF1, 0, ModNone), 3)
           [] At(data, 2) = 81 -> Decoded(KeyEvent(KeyF2, 0, ModNone), 3)
           [] At(data, 2) = 82 -> Decoded(KeyEvent(KeyF3, 0, ModNone), 3)
           [] At(data, 2) = 83 -> Decoded(KeyEvent(KeyF4, 0, ModNone), 3)
           [] OTHER -> Decoded(KeyEvent(KeyEscape, 0, ModNone), 1)

parseControlTabIsCtrlI(b) ==
    CASE b = 0 -> KeyEvent(KeySpace, 0, ModCtrl)
      [] b = 10 \/ b = 13 -> KeyEvent(KeyEnter, 0, ModNone)
      [] b = 27 -> KeyEvent(KeyEscape, 0, ModNone)
      [] b = 127 -> KeyEvent(KeyBackspace, 0, ModNone)
      [] OTHER ->
            IF b >= 1 /\ b <= 26 THEN KeyEvent(KeyRune, Byte(97 + b - 1), ModCtrl)
            ELSE KeyEvent(KeyNone, 0, ModNone)

parseControl(b) ==
    CASE b = 0 -> KeyEvent(KeySpace, 0, ModCtrl)
      [] b = 9 -> KeyEvent(KeyTab, 0, ModNone)
      [] b = 10 \/ b = 13 -> KeyEvent(KeyEnter, 0, ModNone)
      [] b = 27 -> KeyEvent(KeyEscape, 0, ModNone)
      [] b = 127 -> KeyEvent(KeyBackspace, 0, ModNone)
      [] OTHER ->
            IF b >= 1 /\ b <= 26 THEN KeyEvent(KeyRune, Byte(97 + b - 1), ModCtrl)
            ELSE KeyEvent(KeyNone, 0, ModNone)

\* the length the leading byte announces
RuneLen(b) ==
    IF b < 128 THEN 1 ELSE IF b < 224 THEN 2 ELSE IF b < 240 THEN 3 ELSE 4

parseRuneNoLengthCheck(data) ==
    LET b == At(data, 0)
        runeLen == RuneLen(b)
    IN Decoded(KeyEvent(KeyRune, b, ModNone), runeLen)

parseRuneUnmaskedTail(data) ==
    LET b == At(data, 0)
        runeLen == RuneLen(b)
    IN IF Len(data) < runeLen THEN Decoded(KeyEvent(KeyRune, b, ModNone), 1)
       ELSE Decoded(
              KeyEvent(KeyRune,
                CASE runeLen = 1 -> b
                  [] runeLen = 2 -> (b % 32) * 64 + At(data, 1)
                  [] runeLen = 3 ->
                        (b % 16) * 4096 + At(data, 1) * 64 + At(data, 2)
                  [] runeLen = 4 ->
                        (b % 8) * 262144 + At(data, 1) * 4096
                        + At(data, 2) * 64 + At(data, 3),
                ModNone),
              runeLen)

parseRuneSwallowsTruncated(data) ==
    LET b == At(data, 0)
        runeLen == RuneLen(b)
    IN IF Len(data) < runeLen THEN Decoded(KeyEvent(KeyRune, b, ModNone), Len(data))
       ELSE Decoded(
              KeyEvent(KeyRune,
                CASE runeLen = 1 -> b
                  [] runeLen = 2 -> (b % 32) * 64 + (At(data, 1) % 64)
                  [] runeLen = 3 ->
                        (b % 16) * 4096 + (At(data, 1) % 64) * 64 + (At(data, 2) % 64)
                  [] runeLen = 4 ->
                        (b % 8) * 262144 + (At(data, 1) % 64) * 4096
                        + (At(data, 2) % 64) * 64 + (At(data, 3) % 64),
                ModNone),
              runeLen)

parseRune(data) ==
    LET b == At(data, 0)
        runeLen == RuneLen(b)
    IN IF Len(data) < runeLen THEN Decoded(KeyEvent(KeyRune, b, ModNone), 1)
       ELSE Decoded(
              KeyEvent(KeyRune,
                CASE runeLen = 1 -> b
                  [] runeLen = 2 -> (b % 32) * 64 + (At(data, 1) % 64)
                  [] runeLen = 3 ->
                        (b % 16) * 4096 + (At(data, 1) % 64) * 64 + (At(data, 2) % 64)
                  [] runeLen = 4 ->
                        (b % 8) * 262144 + (At(data, 1) % 64) * 4096
                        + (At(data, 2) % 64) * 64 + (At(data, 3) % 64),
                ModNone),
              runeLen)

\* parseSequence and parseEscape, which call each other
RECURSIVE parseSequence(_)
parseEscapeLoneIsNothing(data) ==
    IF Len(data) = 1 THEN Decoded(NoEvent, 0)
    ELSE IF At(data, 1) = 91 THEN parseCSI(data)
    ELSE IF At(data, 1) = 79 THEN parseSS3(data)
    ELSE IF Len(data) >= 2
         THEN LET inner == parseSequence(From(data, 1))
              IN IF inner.ev.type = "key"
                 THEN Decoded([inner.ev EXCEPT !.Modifier = BitOr(@, ModAlt)],
                              inner.n + 1)
                 ELSE Decoded(inner.ev, inner.n + 1)
         ELSE Decoded(KeyEvent(KeyEscape, 0, ModNone), 1)

parseEscapeAltOnly(data) ==
    IF Len(data) = 1 THEN Decoded(KeyEvent(KeyEscape, 0, ModNone), 1)
    ELSE IF At(data, 1) = 91 THEN parseCSI(data)
    ELSE IF At(data, 1) = 79 THEN parseSS3(data)
    ELSE IF Len(data) >= 2
         THEN LET inner == parseSequence(From(data, 1))
              IN IF inner.ev.type = "key"
                 THEN Decoded([inner.ev EXCEPT !.Modifier = ModAlt], inner.n + 1)
                 ELSE Decoded(inner.ev, inner.n + 1)
         ELSE Decoded(KeyEvent(KeyEscape, 0, ModNone), 1)

parseEscape(data) ==
    IF Len(data) = 1 THEN Decoded(KeyEvent(KeyEscape, 0, ModNone), 1)
    ELSE IF At(data, 1) = 91 THEN parseCSI(data)
    ELSE IF At(data, 1) = 79 THEN parseSS3(data)
    ELSE IF Len(data) >= 2
         THEN LET inner == parseSequence(From(data, 1))
              IN IF inner.ev.type = "key"
                 THEN Decoded([inner.ev EXCEPT !.Modifier = BitOr(@, ModAlt)],
                              inner.n + 1)
                 ELSE Decoded(inner.ev, inner.n + 1)
         ELSE Decoded(KeyEvent(KeyEscape, 0, ModNone), 1)

parseSequence(data) ==
    IF Len(data) = 0 THEN Decoded(NoEvent, 0)
    ELSE LET b == At(data, 0)
         IN IF b = 27 THEN parseEscape(data)
            ELSE IF b < 32 THEN Decoded(parseControl(b), 1)
            ELSE IF b = 127 THEN Decoded(KeyEvent(KeyBackspace, 0, ModNone), 1)
            ELSE parseRune(data)

\* one turn of parseInput's loop: the bytes consumed ("if consumed == 0 then 1")
Consumed(d) == IF d.n = 0 THEN 1 ELSE d.n

\* every event parseInput sends for one chunk, in order
RECURSIVE parseInputEvents(_)
parseInputEvents(data) ==
    IF Len(data) = 0 THEN <<>>
    ELSE LET d == parseSequence(data)
         IN (IF d.ev # NoEvent THEN <<d.ev>> ELSE <<>>)
            \o parseInputEvents(From(data, Consumed(d)))

----------------------------------------------------------------------------
\* input.Reader: readLoop, parseInput, and the consumer of Events()

\* what one Read may return: some bytes, end-of-stream, or another error
ReadChunks ==
    {<<3>>, <<27, 91, 65>>, <<97, 195, 169>>, <<27, 91, 49>>,
     <<27>>, <<91, 65>>, <<97, 195>>, <<169>>}

ReadErrors == {"EIO"}

ReadData(bytes) == [kind |-> "data", bytes |-> bytes, err |-> ""]

ReadEOF == [kind |-> "eof", bytes |-> <<>>, err |-> "EOF"]

ReadError(e) == [kind |-> "error", bytes |-> <<>>, err |-> e]

\* the other parts of the program are not running
ScreenIdle ==
    /\ width = 0
    /\ height = 0
    /\ cells = <<>>
    /\ front = <<>>
    /\ out = <<>>
    /\ tty = NewTty(0, 0)
    /\ ret = NoRet
    /\ lastOp = "none"
    /\ lastOOB = FALSE
    /\ synced = FALSE
    /\ nCalls = 0
    /\ panicked = FALSE
    /\ writeErr = "nil"

\* NewReader and Start
ReaderInit ==
    /\ rdPc = "select"
    /\ rdData = <<>>
    /\ rdPending = NoEvent
    /\ eventChan = <<>>
    /\ stopClosed = FALSE
    /\ received = <<>>
    /\ readLog = <<>>
    /\ nReads = 0
    /\ ScreenIdle
    /\ AppIdle
    /\ DecoderIdle
    /\ DrawIdle
    /\ WidgetIdle
    /\ StyleIdle

\* the head of readLoop: "select { case <-r.stopChan: return; default: ... }"
ReaderSelect ==
    /\ rdPc = "select"
    /\ rdPc' = IF stopClosed THEN "exited" ELSE "read"
    /\ UNCHANGED <<rdData, rdPending, eventChan, stopClosed, received, readLog, nReads>>
    /\ UNCHANGED <<screenVars, appVars, decoderVars, drawVars, styleVars, widgetVars>>

ReaderReadDataJoinsEscape ==
    /\ rdPc = "read"
    /\ nReads < MaxReads
    /\ \E c \in ReadChunks :
          /\ rdData' = IF readLog # <<>> /\ readLog[Len(readLog)] = ReadData(<<27>>)
                       THEN <<27>> \o c ELSE c
          /\ readLog' = Append(readLog, ReadData(c))
    /\ rdPc' = "parse"
    /\ nReads' = nReads + 1
    /\ UNCHANGED <<rdPending, eventChan, stopClosed, received>>
    /\ UNCHANGED <<screenVars, appVars, decoderVars, drawVars, styleVars, widgetVars>>

\* r.reader.Read returns n bytes: parseInput(r.buf[:n]) starts
ReaderReadData ==
    /\ rdPc = "read"
    /\ nReads < MaxReads
    /\ \E c \in ReadChunks :
          /\ rdData' = c
          /\ readLog' = Append(readLog, ReadData(c))
    /\ rdPc' = "parse"
    /\ nReads' = nReads + 1
    /\ UNCHANGED <<rdPending, eventChan, stopClosed, received>>
    /\ UNCHANGED <<screenVars, appVars, decoderVars, drawVars, styleVars, widgetVars>>

\* r.reader.Read returns io.EOF: "continue"
ReaderReadEOF ==
    /\ rdPc = "read"
    /\ nReads < MaxReads
    /\ readLog' = Append(readLog, ReadEOF)
    /\ rdPc' = "select"
    /\ nReads' = nReads + 1
    /\ UNCHANGED <<rdData, rdPending, eventChan, stopClosed, received>>
    /\ UNCHANGED <<screenVars, appVars, decoderVars, drawVars, styleVars, widgetVars>>

\* r.reader.Read returns another error: an ErrorEvent is to be sent
ReaderReadErrorSilent ==
    /\ rdPc = "read"
    /\ nReads < MaxReads
    /\ \E e \in ReadErrors :
          /\ rdPending' = rdPending
          /\ readLog' = Append(readLog, ReadError(e))
    /\ rdPc' = "select"
    /\ nReads' = nReads + 1
    /\ UNCHANGED <<rdData, eventChan, stopClosed, received>>
    /\ UNCHANGED <<screenVars, appVars, decoderVars, drawVars, styleVars, widgetVars>>

ReaderReadError ==
    /\ rdPc = "read"
    /\ nReads < MaxReads
    /\ \E e \in ReadErrors :
          /\ rdPending' = ErrorEvent(e)
          /\ readLog' = Append(readLog, ReadError(e))
    /\ rdPc' = "sendErr"
    /\ nReads' = nReads + 1
    /\ UNCHANGED <<rdData, eventChan, stopClosed, received>>
    /\ UNCHANGED <<screenVars, appVars, decoderVars, drawVars, styleVars, widgetVars>>

\* r.reader.Read returns another error: an ErrorEvent is to be sent
\* one turn of parseInput's loop, up to the channel send
ReaderParse ==
    /\ rdPc = "parse"
    /\ IF Len(rdData) = 0
       THEN /\ rdPc' = "select"
            /\ UNCHANGED <<rdData, rdPending>>
       ELSE LET d == parseSequence(rdData)
            IN /\ rdData' = From(rdData, Consumed(d))
               /\ IF d.ev # NoEvent
                  THEN rdPending' = d.ev /\ rdPc' = "send"
                  ELSE UNCHANGED <<rdPending, rdPc>>
    /\ UNCHANGED <<eventChan, stopClosed, received, readLog, nReads>>
    /\ UNCHANGED <<screenVars, appVars, decoderVars, drawVars, styleVars, widgetVars>>

\* "r.eventChan <- event": blocks while the channel is full
ReaderSendDropWhenFull ==
    /\ rdPc \in {"send", "sendErr"}
    /\ eventChan' = IF Len(eventChan) < EventChanCap
                    THEN Append(eventChan, rdPending) ELSE eventChan
    /\ rdPending' = NoEvent
    /\ rdPc' = IF rdPc = "send" THEN "parse" ELSE "select"
    /\ UNCHANGED <<rdData, stopClosed, received, readLog, nReads>>
    /\ UNCHANGED <<screenVars, appVars, decoderVars, drawVars, styleVars, widgetVars>>

ReaderSendUnbounded ==
    /\ rdPc \in {"send", "sendErr"}
    /\ eventChan' = Append(eventChan, rdPending)
    /\ rdPending' = NoEvent
    /\ rdPc' = IF rdPc = "send" THEN "parse" ELSE "select"
    /\ UNCHANGED <<rdData, stopClosed, received, readLog, nReads>>
    /\ UNCHANGED <<screenVars, appVars, decoderVars, drawVars, styleVars, widgetVars>>

ReaderSend ==
    /\ rdPc \in {"send", "sendErr"}
    /\ Len(eventChan) < EventChanCap
    /\ eventChan' = Append(eventChan, rdPending)
    /\ rdPending' = NoEvent
    /\ rdPc' = IF rdPc = "send" THEN "parse" ELSE "select"
    /\ UNCHANGED <<rdData, stopClosed, received, readLog, nReads>>
    /\ UNCHANGED <<screenVars, appVars, decoderVars, drawVars, styleVars, widgetVars>>

\* the consumer: "event := <-r.Events()"
Consume ==
    /\ Len(eventChan) > 0
    /\ received' = Append(received, Head(eventChan))
    /\ eventChan' = Tail(eventChan)
    /\ UNCHANGED <<rdPc, rdData, rdPending, stopClosed, readLog, nReads>>
    /\ UNCHANGED <<screenVars, appVars, decoderVars, drawVars, styleVars, widgetVars>>

\* Reader.Stop, called once by the owner
Stop ==
    /\ ~stopClosed
    /\ rdPc # "idle"
    /\ stopClosed' = TRUE
    /\ UNCHANGED <<rdPc, rdData, rdPending, eventChan, received, readLog, nReads>>
    /\ UNCHANGED <<screenVars, appVars, decoderVars, drawVars, styleVars, widgetVars>>

ReaderNext ==
    \/ ReaderSelect
    \/ ReaderReadData
    \/ ReaderReadEOF
    \/ ReaderReadError
    \/ ReaderParse
    \/ ReaderSend
    \/ Consume
    \/ Stop

ReaderSpec == ReaderInit /\ [][ReaderNext]_vars

\* the Go scheduler runs a goroutine whose channel send can proceed
ReaderFairSpec == ReaderSpec /\ WF_vars(ReaderSend)

\* readLoop runs whenever it can take a step by itself; when bytes arrive on
\* stdin and when the consumer receives are not up to the reader
ReaderLiveSpec ==
    ReaderSpec /\ WF_vars(ReaderSelect) /\ WF_vars(ReaderParse) /\ WF_vars(ReaderSend)

----------------------------------------------------------------------------
\* One parseInput call on a chunk, taken one parseSequence call at a time

\* bytes the chunks are made of: NUL, Ctrl+C, ESC, '1', ';', 'A', 'O', '[',
\* 'a', '~', DEL, a continuation byte, and 2-, 3- and 4-byte leading bytes
DecodeBytes == {0, 3, 27, 49, 59, 65, 79, 91, 97, 126, 127, 169, 195, 226, 240}

\* every sequence over S of length 1..n
RECURSIVE SeqsUpTo(_, _)
SeqsUpTo(S, n) ==
    IF n = 0 THEN {}
    ELSE {<<b>> : b \in S}
         \cup SeqsUpTo(S, n - 1)
         \cup {Append(s, b) : s \in SeqsUpTo(S, n - 1), b \in S}

\* the final bytes of the cursor and Home/End sequences: A B C D H F
CursorFinals == {65, 66, 67, 68, 72, 70}

\* ESC [ final, ESC [ 1 final, ESC [ 1 ; final and ESC [ 1 ; n final for a digit n
CsiChunks ==
    {<<27, 91, f>> : f \in CursorFinals}
    \cup {<<27, 91, 49, f>> : f \in CursorFinals}
    \cup {<<27, 91, 49, 59, f>> : f \in CursorFinals}
    \cup {<<27, 91, 49, 59, 48 + n, f>> : n \in 0..9, f \in CursorFinals}

\* the UTF-8 encoding of a code point
Utf8(cp) ==
    IF cp < 128 THEN <<cp>>
    ELSE IF cp < 2048 THEN <<192 + (cp \div 64), 128 + (cp % 64)>>
    ELSE IF cp < 65536
         THEN <<224 + (cp \div 4096), 128 + ((cp \div 64) % 64), 128 + (cp % 64)>>
    ELSE <<240 + (cp \div 262144), 128 + ((cp \div 4096) % 64),
           128 + ((cp \div 64) % 64), 128 + (cp % 64)>>

\* code points at both ends of each encoded length, and some inside
CodePoints ==
    {32, 97, 126, 128, 233, 2047, 2048, 8364, 65535, 65536, 128512, 1114111}

\* each encoding whole (alone, and followed by 'a') and cut short
Utf8Chunks ==
    {Utf8(cp) : cp \in CodePoints}
    \cup {Append(Utf8(cp), 97) : cp \in CodePoints}
    \cup UNION {{SubSeq(Utf8(cp), 1, k) : k \in 1..Len(Utf8(cp))} : cp \in CodePoints}

\* every byte on its own: a chunk of one byte
ByteChunks == {<<b>> : b \in 0..255}

\* the decimal digits of n, for n below 100
Digits(n) == IF n < 10 THEN <<48 + n>> ELSE <<48 + (n \div 10), 48 + (n % 10)>>

\* ESC [ n ~ and ESC [ n ; m ~
TildeChunks ==
    {<<27, 91>> \o Digits(n) \o <<126>> : n \in 0..25}
    \cup {<<27, 91>> \o Digits(n) \o <<59, 48 + m, 126>> : n \in 0..25, m \in {2, 5, 8}}
    \cup {<<27, 91, 126>>, <<27, 91, 51, 59, 126>>}

\* the third bytes parseSS3 knows: A B C D H F P Q R S
Ss3Finals == {65, 66, 67, 68, 72, 70, 80, 81, 82, 83}

\* the final bytes parseCSI knows: A B C D H F ~ Z P Q R S
CsiFinals == {65, 66, 67, 68, 72, 70, 126, 90, 80, 81, 82, 83}

\* ESC O x for every byte x, alone and followed by 'a'
Ss3Chunks ==
    {<<27, 79, x>> : x \in 0..255} \cup {<<27, 79, x, 97>> : x \in Ss3Finals}

\* CSI sequences, with and without parameters, ending in each final byte
\* 0x40..0x7E
FinalChunks ==
    {<<27, 91>> \o p \o <<f>> : p \in {<<>>, <<49>>, <<49, 59, 53>>}, f \in 64..126}

DecodeInputs ==
    SeqsUpTo(DecodeBytes, MaxChunkLen) \cup CsiChunks \cup Utf8Chunks \cup ByteChunks
    \cup TildeChunks \cup Ss3Chunks \cup FinalChunks

\* parseInput(data) is called
DecoderInit ==
    /\ dcInput \in DecodeInputs
    /\ dcBefore = <<>>
    /\ dcData = dcInput
    /\ dcEvent = NoEvent
    /\ dcConsumed = 0
    /\ dcTurns = 0
    /\ ScreenIdle
    /\ ReaderIdle
    /\ AppIdle
    /\ DrawIdle
    /\ WidgetIdle
    /\ StyleIdle

\* one turn of parseInput's loop: parseSequence(data), then data = data[consumed:]
DecodeTurn ==
    /\ Len(dcData) > 0
    /\ LET d == parseSequence(dcData)
       IN /\ dcEvent' = d.ev
          /\ dcConsumed' = d.n
          /\ dcData' = From(dcData, Consumed(d))
    /\ dcBefore' = dcData
    /\ dcTurns' = dcTurns + 1
    /\ UNCHANGED dcInput
    /\ UNCHANGED <<screenVars, readerVars, appVars, drawVars, styleVars, widgetVars>>

DecoderNext == DecodeTurn

DecoderSpec == DecoderInit /\ [][DecoderNext]_vars

----------------------------------------------------------------------------
\* screen.Buffer: DrawString

\* the index i that "for i, r := range s" yields with the k-th code point of
\* s (k from 0): the offset of its first byte in the UTF-8 bytes of s
RECURSIVE ByteOffset(_, _)
ByteOffset(text, k) ==
    IF k = 0 THEN 0 ELSE ByteOffset(text, k - 1) + Len(Utf8(text[k]))

\* the turns k, k+1, ... of DrawString's loop: b.Set(x+i, y, z, NewCell(r, style))
RECURSIVE DrawStringFrom(_, _, _, _, _, _, _, _, _)
DrawStringFrom(b, w, h, x, y, z, text, style, k) ==
    IF k >= Len(text) THEN NoStore(b)
    ELSE LET res == Set(b, w, h, x + ByteOffset(text, k), y, z,
                        NewCell(text[k + 1], style))
         IN IF res.panic THEN res
            ELSE DrawStringFrom(res.cells, w, h, x, y, z, text, style, k + 1)

DrawString(b, w, h, x, y, z, text, style) ==
    DrawStringFrom(b, w, h, x, y, z, text, style, 0)

\* the size of the buffer DrawString is called on
DrawSizes == {<<6, 1>>}

\* the strings drawn, as code points: ASCII, and text with 2- and 3-byte
\* characters (e with acute accent U+00E9, upwards arrow U+2191)
DrawTexts ==
    {<<>>, <<97>>, <<97, 98>>, <<97, 98, 99>>, <<233>>, <<233, 97>>, <<97, 233, 98>>,
     <<8593, 97>>, <<8593, 47, 8595>>, <<233, 8593, 97>>}

DrawColumns == {0, 4}

DrawInit ==
    \E sz \in DrawSizes :
        /\ width = sz[1]
        /\ height = sz[2]
        /\ cells = NewBuffer(sz[1], sz[2], Depth)
        /\ front = NewFront(sz[1], sz[2])
        /\ tty = NewTty(sz[1], sz[2])
        /\ out = <<>>
        /\ ret = NoRet
        /\ lastOp = "NewScreen"
        /\ lastOOB = FALSE
        /\ synced = FALSE
        /\ nCalls = 0
        /\ panicked = FALSE
        /\ writeErr = "nil"
        /\ DrawIdle
        /\ WidgetIdle
        /\ StyleIdle
        /\ ReaderIdle
        /\ AppIdle
        /\ DecoderIdle

DoDrawString ==
    /\ CanCall
    /\ \E text \in DrawTexts, x \in DrawColumns, y \in 0..(height - 1),
          z \in 0..(Depth - 1), style \in SetStyles :
          LET res == DrawString(cells, width, height, x, y, z, text, style)
          IN /\ cells' = res.cells
             /\ panicked' = res.panic
             /\ drawArgs' = [kind |-> "DrawString", x |-> x, y |-> y, z |-> z,
                             text |-> text, style |-> style]
    /\ lastOp' = "DrawString"
    /\ lastOOB' = FALSE
    /\ nCalls' = nCalls + 1
    /\ out' = <<>>
    /\ ret' = NoRet
    /\ synced' = FALSE
    /\ UNCHANGED <<width, height, front, tty, writeErr>>
    /\ UNCHANGED <<readerVars, appVars, decoderVars, styleVars, widgetVars>>

DrawNext == DoDrawString

DrawSpec == DrawInit /\ [][DrawNext]_vars

-----------------------------------------------------------------------------

\* Style: Equals

\* the colours of the styles compared: no colour (a nil interface), the
\* default colour, a basic colour and the palette colour of the same number
StyleColors == {NilColor, ColorDefault, ColorRed, [kind |-> "c256", v |-> <<1>>]}

StyleAttrs == {"Bold", "Dim", "Italic", "Underline", "Blink", "Reverse", "Strike"}

AllStyles ==
    [FG : StyleColors, BG : StyleColors, Bold : BOOLEAN, Dim : BOOLEAN,
     Italic : BOOLEAN, Underline : BOOLEAN, Blink : BOOLEAN, Reverse : BOOLEAN,
     Strike : BOOLEAN]

\* the styles got from s by assigning one field another value
OneFieldChanged(s) ==
    {[s EXCEPT !.FG = c] : c \in StyleColors \ {s.FG}}
    \cup {[s EXCEPT !.BG = c] : c \in StyleColors \ {s.BG}}
    \cup {[s EXCEPT ![a] = ~s[a]] : a \in StyleAttrs}

\* the styles s is compared with: itself, each style one field away, and the
\* default style
ComparedWith(s) == {s, DefaultStyle} \cup OneFieldChanged(s)

StyleInit ==
    /\ \E s \in AllStyles :
          /\ eqS = s
          /\ \E other \in ComparedWith(s) : eqOther = other
    /\ eqRet = NoResult
    /\ DrawIdle
    /\ WidgetIdle
    /\ ScreenIdle
    /\ ReaderIdle
    /\ AppIdle
    /\ DecoderIdle

\* the call s.Equals(other)
DoEquals ==
    /\ eqRet = NoResult
    /\ eqRet' = [kind |-> "bool", v |-> StyleEquals(eqS, eqOther)]
    /\ UNCHANGED <<eqS, eqOther>>
    /\ UNCHANGED <<screenVars, readerVars, appVars, decoderVars, drawVars, widgetVars>>

StyleNext == DoEquals

StyleSpec == StyleInit /\ [][StyleNext]_vars

-----------------------------------------------------------------------------

\* screen.Screen.Resize and app.App: frames and handleResize in the event loop

\* the sizes the terminal is resized to
ResizeSizes == {<<2, 2>>, <<3, 1>>, <<1, 2>>}

\* Screen.Resize: a fresh front image and a fresh back buffer of the new size
Resize(w, h) == [width |-> w, height |-> h, front |-> NewFront(w, h),
                 back |-> NewBuffer(w, h, Depth)]

\* the terminal after the window changed size: the glyphs that still fit stay
ResizedTty(t, w, h) ==
    [grid |-> [y \in 0..(h - 1) |-> [x \in 0..(w - 1) |->
                  IF y \in DOMAIN t.grid /\ x \in DOMAIN t.grid[y]
                  THEN t.grid[y][x] ELSE BlankGlyph]],
     row |-> 0, col |-> 0, pen |-> t.pen]

\* what a.root.Render(buf, bounds) may leave in a cleared buffer of w x h:
\* nothing, or one cell drawn inside the bounds
RootRender(b, w, h) ==
    {b} \cup {Set(b, w, h, x, y, z, c).cells :
                 x \in 0..(w - 1), y \in 0..(h - 1), z \in 0..(Depth - 1),
                 c \in SetCells \ {EmptyCell}}

\* the event loop is running on a screen of some size, nothing drawn yet
FrameInit ==
    /\ \E sz \in ResizeSizes :
          /\ width = sz[1]
          /\ height = sz[2]
          /\ cells = NewBuffer(sz[1], sz[2], Depth)
          /\ front = NewFront(sz[1], sz[2])
          /\ tty = NewTty(sz[1], sz[2])
    /\ out = <<>>
    /\ ret = NoRet
    /\ lastOp = "NewScreen"
    /\ lastOOB = FALSE
    /\ synced = FALSE
    /\ nCalls = 0
    /\ panicked = FALSE
    /\ writeErr = "nil"
    /\ appPc = "loop"
    /\ shellTTY = "cooked"
    /\ termios = "raw"
    /\ originalTTY = "cooked"
    /\ altScreen = TRUE
    /\ cursorShown = FALSE
    /\ defers = <<"ExitRawMode", "ExitAltScreen", "ShowCursor", "signal.Stop",
                  "inputReader.Stop", "running=false">>
    /\ running = TRUE
    /\ quitClosed = FALSE
    /\ sigNotify = TRUE
    /\ sigChan = <<>>
    /\ renderChan = 0
    /\ hasScreen = TRUE
    /\ exitPath = "none"
    /\ quitCalls = 0
    /\ quitSignalSent = FALSE
    /\ ReaderIdle
    /\ DecoderIdle
    /\ DrawIdle
    /\ WidgetIdle
    /\ StyleIdle

FrameAppUnchanged ==
    UNCHANGED <<shellTTY, termios, originalTTY, altScreen, cursorShown, defers,
                running, quitClosed, sigNotify, sigChan, renderChan, hasScreen,
                exitPath, quitCalls,
                   quitSignalSent>>

\* App.render, from the event, render-request and tick cases of the loop:
\* Clear, the root widget draws, diff Render
LoopFrame ==
    /\ appPc = "loop"
    /\ CanCall
    /\ \E drawn \in RootRender(Clear(cells), width, height) :
          /\ cells' = drawn
          /\ LET flattened == Flatten(drawn, width, height)
             IN /\ out' = RenderOutput(flattened, front, width, height)
                /\ tty' = TtyRun(tty, out', width, height)
                /\ front' = CopyToFront(front, flattened, height)
    /\ lastOp' = "Render"
    /\ lastOOB' = FALSE
    /\ ret' = NoRet
    /\ synced' = TRUE
    /\ writeErr' = "nil"
    /\ nCalls' = nCalls + 1
    /\ UNCHANGED <<width, height, panicked, appPc>>
    /\ FrameAppUnchanged
    /\ UNCHANGED <<readerVars, decoderVars, drawVars, styleVars, widgetVars>>

\* handleResize when a.terminal.Size() fails: return, nothing is resized
HandleResizeSizeFails ==
    /\ appPc = "loop"
    /\ CanCall
    /\ lastOp' = "SizeFailed"
    /\ out' = <<>>
    /\ nCalls' = nCalls + 1
    /\ UNCHANGED <<width, height, cells, front, tty, ret, lastOOB, synced, panicked,
                   writeErr, appPc>>
    /\ FrameAppUnchanged
    /\ UNCHANGED <<readerVars, decoderVars, drawVars, styleVars, widgetVars>>

\* handleResize, "case syscall.SIGWINCH": Size, then a.screen.Resize(width, height)
HandleResize ==
    /\ appPc = "loop"
    /\ CanCall
    /\ \E sz \in ResizeSizes :
          LET r == Resize(sz[1], sz[2])
          IN /\ width' = r.width
             /\ height' = r.height
             /\ front' = r.front
             /\ cells' = r.back
             /\ tty' = ResizedTty(tty, sz[1], sz[2])
    /\ appPc' = "resized"
    /\ lastOp' = "Resize"
    /\ lastOOB' = FALSE
    /\ out' = <<>>
    /\ ret' = NoRet
    /\ synced' = FALSE
    /\ nCalls' = nCalls + 1
    /\ UNCHANGED <<panicked, writeErr>>
    /\ FrameAppUnchanged
    /\ UNCHANGED <<readerVars, decoderVars, drawVars, styleVars, widgetVars>>

\* the rest of handleResize: the resize callback, then forceRender (Clear,
\* the root widget draws, ForceRender)
HandleResizeRedrawDiff ==
    /\ appPc = "resized"
    /\ \E drawn \in RootRender(Clear(cells), width, height) :
          /\ cells' = drawn
          /\ LET flattened == Flatten(drawn, width, height)
             IN /\ out' = RenderOutput(flattened, front, width, height)
                /\ tty' = TtyRun(tty, out', width, height)
                /\ front' = CopyToFront(front, flattened, height)
    /\ appPc' = "loop"
    /\ lastOp' = "Render"
    /\ lastOOB' = FALSE
    /\ ret' = NoRet
    /\ synced' = TRUE
    /\ writeErr' = "nil"
    /\ UNCHANGED <<width, height, panicked, nCalls>>
    /\ FrameAppUnchanged
    /\ UNCHANGED <<readerVars, decoderVars, drawVars, styleVars, widgetVars>>

HandleResizeRedraw ==
    /\ appPc = "resized"
    /\ \E drawn \in RootRender(Clear(cells), width, height) :
          /\ cells' = drawn
          /\ LET flattened == Flatten(drawn, width, height)
             IN /\ out' = ForceRenderOutput(flattened, width, height)
                /\ tty' = TtyRun(tty, out', width, height)
                /\ front' = CopyToFront(front, flattened, height)
    /\ appPc' = "loop"
    /\ lastOp' = "ForceRender"
    /\ lastOOB' = FALSE
    /\ ret' = NoRet
    /\ synced' = TRUE
    /\ writeErr' = "nil"
    /\ UNCHANGED <<width, height, panicked, nCalls>>
    /\ FrameAppUnchanged
    /\ UNCHANGED <<readerVars, decoderVars, drawVars, styleVars, widgetVars>>

FrameNext ==
    \/ LoopFrame
    \/ HandleResizeSizeFails
    \/ HandleResize
    \/ HandleResizeRedraw

FrameSpec == FrameInit /\ [][FrameNext]_vars

-----------------------------------------------------------------------------

\* widget.TextInput: HandleEvent

\* KeyEvent.IsCtrl
IsCtrl(e) == BitAnd(e.Modifier, ModCtrl) # 0

\* NewTextInput's width
TextInputWidth == 20

\* longest value typed in the model
MaxText == 3

TextField(value, cursor, offset) == [value |-> value, cursor |-> cursor, offset |-> offset]

\* updateOffset: keep the cursor inside the visible window
updateOffset(ti) ==
    LET w == IF TextInputWidth <= 0 THEN 20 ELSE TextInputWidth
        o1 == IF ti.cursor < ti.offset THEN ti.cursor ELSE ti.offset
    IN [ti EXCEPT !.offset = IF ti.cursor >= o1 + w THEN ti.cursor - w + 1 ELSE o1]

\* insert: the rune goes in at the cursor, the cursor moves right
insert(ti, r) ==
    updateOffset([ti EXCEPT
        !.value = SubSeq(ti.value, 1, ti.cursor) \o <<r>> \o From(ti.value, ti.cursor),
        !.cursor = ti.cursor + 1])

backspace(ti) ==
    IF ti.cursor > 0
    THEN updateOffset([ti EXCEPT
            !.value = SubSeq(ti.value, 1, ti.cursor - 1) \o From(ti.value, ti.cursor),
            !.cursor = ti.cursor - 1])
    ELSE ti

cursorLeft(ti) ==
    IF ti.cursor > 0 THEN updateOffset([ti EXCEPT !.cursor = ti.cursor - 1]) ELSE ti

\* delete: drop the rune under the cursor
delete(ti) ==
    IF ti.cursor < Len(ti.value)
    THEN [ti EXCEPT !.value = SubSeq(ti.value, 1, ti.cursor) \o From(ti.value, ti.cursor + 1)]
    ELSE ti

cursorRight(ti) ==
    IF ti.cursor < Len(ti.value) THEN updateOffset([ti EXCEPT !.cursor = ti.cursor + 1]) ELSE ti

\* "for cursor < len(value) && value[cursor] != ' '" (spaces FALSE) or "== ' '"
RECURSIVE SkipForward(_, _, _)
SkipForward(value, cursor, spaces) ==
    IF cursor < Len(value) /\ ((At(value, cursor) = 32) = spaces)
    THEN SkipForward(value, cursor + 1, spaces)
    ELSE cursor

\* "for cursor > 0 && value[cursor-1] == ' '" (spaces TRUE) or "!= ' '"
RECURSIVE SkipBack(_, _, _)
SkipBack(value, cursor, spaces) ==
    IF cursor > 0 /\ ((At(value, cursor - 1) = 32) = spaces)
    THEN SkipBack(value, cursor - 1, spaces)
    ELSE cursor

wordLeft(ti) ==
    updateOffset([ti EXCEPT
        !.cursor = SkipBack(ti.value, SkipBack(ti.value, ti.cursor, TRUE), FALSE)])

wordRight(ti) ==
    updateOffset([ti EXCEPT
        !.cursor = SkipForward(ti.value, SkipForward(ti.value, ti.cursor, FALSE), TRUE)])

\* deleteWord: drop the spaces and the word before the cursor
deleteWord(ti) ==
    IF ti.cursor = 0 THEN ti
    ELSE LET end == ti.cursor
             start == SkipBack(ti.value, SkipBack(ti.value, ti.cursor, TRUE), FALSE)
         IN updateOffset([ti EXCEPT
                !.value = SubSeq(ti.value, 1, start) \o From(ti.value, end),
                !.cursor = start])

\* TextInput.HandleEvent on a focused input: the switch on keyEvent.Key comes
\* first and returns; the Ctrl+key switch is reached only when none of its
\* cases matched
HandleEvent(ti, e) ==
    IF e.type # "key" THEN ti
    ELSE CASE e.Key = KeyRune -> insert(ti, e.Rune)
           [] e.Key = KeyBackspace -> backspace(ti)
           [] e.Key = KeyDelete -> delete(ti)
           [] e.Key = KeyLeft -> IF IsCtrl(e) THEN wordLeft(ti) ELSE cursorLeft(ti)
           [] e.Key = KeyRight -> IF IsCtrl(e) THEN wordRight(ti) ELSE cursorRight(ti)
           [] e.Key = KeyHome -> updateOffset([ti EXCEPT !.cursor = 0])
           [] e.Key = KeyEnd -> updateOffset([ti EXCEPT !.cursor = Len(ti.value)])
           [] e.Key = KeyEnter -> ti
           [] OTHER ->
                IF IsCtrl(e) /\ e.Key = KeyRune
                THEN CASE e.Rune = 97 -> updateOffset([ti EXCEPT !.cursor = 0])
                       [] e.Rune = 101 -> updateOffset([ti EXCEPT !.cursor = Len(ti.value)])
                       [] e.Rune = 107 -> [ti EXCEPT !.value = SubSeq(ti.value, 1, ti.cursor)]
                       [] e.Rune = 117 ->
                            updateOffset([ti EXCEPT !.value = From(ti.value, ti.cursor),
                                                    !.cursor = 0])
                       [] e.Rune = 119 -> deleteWord(ti)
                       [] OTHER -> ti
                ELSE ti

\* the events sent to the input, as the decoder produces them: 'x', space,
\* Ctrl+A, Ctrl+E, Ctrl+K, Ctrl+U, Ctrl+W, DEL, CR, the arrows Left and Right,
\* Home, End, Delete, Ctrl+Left and Ctrl+Right
TextEvents ==
    {parseSequence(<<b>>).ev : b \in {120, 32, 1, 5, 11, 21, 23, 127, 13}}
    \cup {parseSequence(<<27, 91, f>>).ev : f \in {68, 67, 72, 70}}
    \cup {parseSequence(<<27, 91, 51, 126>>).ev, parseSequence(<<27, 91, 49, 59, 53, 68>>).ev,
          parseSequence(<<27, 91, 49, 59, 53, 67>>).ev}

\* NewTextInput, then SetFocused
TextInit ==
    /\ tiValue = <<>>
    /\ tiCursor = 0
    /\ tiOffset = 0
    /\ tiFocused \in BOOLEAN
    /\ tiEvent = NoEvent
    /\ fmWidgets = <<>>
    /\ fmFocusedIndex = -1
    /\ wFocused = <<>>
    /\ ScreenIdle
    /\ ReaderIdle
    /\ AppIdle
    /\ DecoderIdle
    /\ DrawIdle
    /\ StyleIdle

\* one HandleEvent call
TextHandleEvent ==
    /\ \E e \in TextEvents :
          /\ tiEvent' = e
          /\ LET ti == IF tiFocused
                       THEN HandleEvent(TextField(tiValue, tiCursor, tiOffset), e)
                       ELSE TextField(tiValue, tiCursor, tiOffset)
             IN /\ Len(ti.value) <= MaxText
                /\ tiValue' = ti.value
                /\ tiCursor' = ti.cursor
                /\ tiOffset' = ti.offset
    /\ UNCHANGED <<tiFocused, fmWidgets, fmFocusedIndex, wFocused>>
    /\ UNCHANGED <<screenVars, readerVars, appVars, decoderVars, drawVars, styleVars>>

TextNext == TextHandleEvent

TextSpec == TextInit /\ [][TextNext]_vars

-----------------------------------------------------------------------------

\* widget.FocusManager

\* longest widget list in the model
MaxWidgets == 3

\* the widgets handed to the manager: three interactive ones and a label
Widgets == {"input1", "input2", "button", "label"}

\* BaseWidget.IsInteractive
IsInteractive(w) == w # "label"

\* "for i, widget := range fm.widgets { if widget == w": the first index
\* (from 0) of w in the list, or -1
IndexOf(widgets, w) ==
    IF \E i \in 1..Len(widgets) : widgets[i] = w
    THEN (CHOOSE i \in 1..Len(widgets) :
              widgets[i] = w /\ \A j \in 1..(i - 1) : widgets[j] # w) - 1
    ELSE -1

\* "if fm.focusedIndex >= 0 && fm.focusedIndex < len(fm.widgets) {
\*      fm.widgets[fm.focusedIndex].SetFocused(false) }"
UnfocusCurrent ==
    IF fmFocusedIndex >= 0 /\ fmFocusedIndex < Len(fmWidgets)
    THEN [wFocused EXCEPT ![At(fmWidgets, fmFocusedIndex)] = FALSE]
    ELSE wFocused

FocusUnchanged ==
    /\ UNCHANGED <<tiValue, tiCursor, tiOffset, tiFocused, tiEvent>>
    /\ UNCHANGED <<screenVars, readerVars, appVars, decoderVars, drawVars, styleVars>>

\* NewFocusManager, and widgets none of which is focused
FocusInit ==
    /\ fmWidgets = <<>>
    /\ fmFocusedIndex = -1
    /\ wFocused = [w \in Widgets |-> FALSE]
    /\ tiValue = <<>>
    /\ tiCursor = 0
    /\ tiOffset = 0
    /\ tiFocused = FALSE
    /\ tiEvent = NoEvent
    /\ ScreenIdle
    /\ ReaderIdle
    /\ AppIdle
    /\ DecoderIdle
    /\ DrawIdle
    /\ StyleIdle

\* FocusManager.Add
FocusManagerAdd ==
    /\ \E w \in Widgets :
          /\ Len(fmWidgets) < MaxWidgets
          /\ fmWidgets' = IF IsInteractive(w) THEN Append(fmWidgets, w) ELSE fmWidgets
    /\ UNCHANGED <<fmFocusedIndex, wFocused>>
    /\ FocusUnchanged

\* FocusManager.Remove
FocusManagerRemove ==
    /\ \E w \in Widgets :
          LET i == IndexOf(fmWidgets, w)
              rest == SubSeq(fmWidgets, 1, i) \o From(fmWidgets, i + 1)
          IN IF i >= 0
             THEN /\ fmWidgets' = rest
                  /\ fmFocusedIndex' = IF fmFocusedIndex >= Len(rest)
                                       THEN Len(rest) - 1
                                       ELSE fmFocusedIndex
             ELSE UNCHANGED <<fmWidgets, fmFocusedIndex>>
    /\ UNCHANGED wFocused
    /\ FocusUnchanged

\* FocusManager.Focus
FocusManagerFocus ==
    /\ \E w \in Widgets :
          LET i == IndexOf(fmWidgets, w)
          IN IF i >= 0
             THEN /\ fmFocusedIndex' = i
                  /\ wFocused' = [UnfocusCurrent EXCEPT ![w] = TRUE]
             ELSE UNCHANGED <<fmFocusedIndex, wFocused>>
    /\ UNCHANGED fmWidgets
    /\ FocusUnchanged

\* FocusManager.FocusNext, with cycleFocus true as NewFocusManager sets it
FocusNext ==
    /\ IF Len(fmWidgets) = 0
       THEN UNCHANGED <<fmFocusedIndex, wFocused>>
       ELSE LET next == IF fmFocusedIndex + 1 >= Len(fmWidgets) THEN 0
                        ELSE fmFocusedIndex + 1
            IN /\ fmFocusedIndex' = next
               /\ wFocused' = [UnfocusCurrent EXCEPT ![At(fmWidgets, next)] = TRUE]
    /\ UNCHANGED fmWidgets
    /\ FocusUnchanged

\* FocusManager.FocusPrev
FocusPrev ==
    /\ IF Len(fmWidgets) = 0
       THEN UNCHANGED <<fmFocusedIndex, wFocused>>
       ELSE LET prev == IF fmFocusedIndex - 1 < 0 THEN Len(fmWidgets) - 1
                        ELSE fmFocusedIndex - 1
            IN /\ fmFocusedIndex' = prev
               /\ wFocused' = [UnfocusCurrent EXCEPT ![At(fmWidgets, prev)] = TRUE]
    /\ UNCHANGED fmWidgets
    /\ FocusUnchanged

\* FocusManager.Focused: the widget, or "nil"
Focused ==
    IF fmFocusedIndex >= 0 /\ fmFocusedIndex < Len(fmWidgets)
    THEN At(fmWidgets, fmFocusedIndex)
    ELSE "nil"

FocusMgrNext ==
    \/ FocusManagerAdd
    \/ FocusManagerRemove
    \/ FocusManagerFocus
    \/ FocusNext
    \/ FocusPrev

FocusSpec == FocusInit /\ [][FocusMgrNext]_vars

-----------------------------------------------------------------------------

\* terminal.Terminal: EnterRawMode, ExitRawMode

\* the flags and control characters EnterRawMode changes
RawIflag == {"BRKINT", "ICRNL", "INPCK", "ISTRIP", "IXON"}
RawLflag == {"ECHO", "ICANON", "IEXTEN", "ISIG"}

\* "raw := *termios" followed by the flag changes
MakeRaw(t) ==
    [iflag |-> t.iflag \ RawIflag,
     oflag |-> t.oflag \ {"OPOST"},
     cflag |-> t.cflag \cup {"CS8"},
     lflag |-> t.lflag \ RawLflag,
     vmin |-> 1,
     vtime |-> 0]

\* attributes the terminal may have when the program starts
ShellTermios ==
    [iflag : {{"ICRNL", "IXON"}, {"ICRNL"}, {"BRKINT", "ICRNL", "IXON"}},
     oflag : {{"OPOST"}},
     cflag : {{"CS8"}, {}},
     lflag : {RawLflag, {"ISIG"}, {"ECHO", "ICANON", "ISIG"}},
     vmin : {1},
     vtime : {0}]

\* Terminal.originalTTY before any EnterRawMode
NilTermios == [nil |-> TRUE]

ErrorRet(e) == [kind |-> "error", err |-> e]

\* terminal.New on a terminal with some attributes
TermInit ==
    /\ appPc = "idle"
    /\ shellTTY \in ShellTermios
    /\ termios = shellTTY
    /\ originalTTY = NilTermios
    /\ altScreen = FALSE
    /\ cursorShown = TRUE
    /\ defers = <<>>
    /\ running = FALSE
    /\ quitClosed = FALSE
    /\ sigNotify = FALSE
    /\ sigChan = <<>>
    /\ renderChan = 0
    /\ hasScreen = FALSE
    /\ exitPath = "none"
    /\ quitCalls = 0
    /\ quitSignalSent = FALSE
    /\ ScreenIdle
    /\ ReaderIdle
    /\ DecoderIdle
    /\ DrawIdle
    /\ WidgetIdle
    /\ StyleIdle

TermUnchanged ==
    /\ UNCHANGED <<appPc, shellTTY, altScreen, cursorShown, defers, running, quitClosed,
                   sigNotify, sigChan, renderChan, hasScreen, exitPath, quitCalls,
                   quitSignalSent>>
    /\ UNCHANGED <<width, height, cells, front, out, tty, lastOOB, synced, nCalls,
                   panicked, writeErr>>
    /\ UNCHANGED <<readerVars, decoderVars, drawVars, styleVars, widgetVars>>

\* Terminal.EnterRawMode: TCGETS may fail, then nothing changes; the attributes
\* read are saved in originalTTY before TCSETS, which may fail too
EnterRawMode ==
    /\ \E res \in {"getfail", "setfail", "ok"} :
          CASE res = "getfail" ->
                  /\ ret' = ErrorRet("failed to get termios")
                  /\ UNCHANGED <<termios, originalTTY>>
            [] res = "setfail" ->
                  /\ originalTTY' = termios
                  /\ ret' = ErrorRet("failed to set raw mode")
                  /\ UNCHANGED termios
            [] res = "ok" ->
                  /\ originalTTY' = termios
                  /\ termios' = MakeRaw(termios)
                  /\ ret' = ErrorRet("nil")
    /\ lastOp' = "EnterRawMode"
    /\ TermUnchanged

\* Terminal.ExitRawMode: nothing when originalTTY is nil, else TCSETS of
\* originalTTY, which may fail
ExitRawMode ==
    /\ IF originalTTY = NilTermios
       THEN /\ ret' = ErrorRet("nil")
            /\ UNCHANGED termios
       ELSE \E res \in {"setfail", "ok"} :
               IF res = "setfail"
               THEN /\ ret' = ErrorRet("failed to restore terminal")
                    /\ UNCHANGED termios
               ELSE /\ termios' = originalTTY
                    /\ ret' = ErrorRet("nil")
    /\ lastOp' = "ExitRawMode"
    /\ UNCHANGED originalTTY
    /\ TermUnchanged

TermNext ==
    \/ EnterRawMode
    \/ ExitRawMode

TermSpec == TermInit /\ [][TermNext]_vars

-----------------------------------------------------------------------------

\* terminal.Terminal and app.App: Run

\* capacity of Run's sigChan and of App.renderChan
SigChanCap == 1

RenderChanCap == 1

Signals == {"SIGINT", "SIGTERM", "SIGWINCH"}

\* attributes a shell may leave the terminal in
ShellAttrs == {"cooked", "cbreak"}

\* the key events the reader delivers in the model: Ctrl+C, Ctrl+Q and 'a'
AppKeys == {parseSequence(<<3>>).ev, parseSequence(<<17>>).ev, parseSequence(<<97>>).ev}

\* handleEvent's test for the quit keys
IsQuitKey(e) ==
    e.type = "key" /\ IsCtrl(e) /\ e.Key = KeyRune /\ e.Rune \in {99, 113}

\* the state Run's deferred calls act on
Deferrable ==
    [termios |-> termios, altScreen |-> altScreen, cursorShown |-> cursorShown,
     running |-> running, stopClosed |-> stopClosed, sigNotify |-> sigNotify]

\* one deferred call; orig is Terminal.originalTTY
RunDeferred(st, call, orig) ==
    CASE call = "ExitRawMode" ->
            IF orig = "nil" THEN st ELSE [st EXCEPT !.termios = orig]
      [] call = "ExitAltScreen" -> [st EXCEPT !.altScreen = FALSE]
      [] call = "ShowCursor" -> [st EXCEPT !.cursorShown = TRUE]
      [] call = "signal.Stop" -> [st EXCEPT !.sigNotify = FALSE]
      [] call = "inputReader.Stop" -> [st EXCEPT !.stopClosed = TRUE]
      [] call = "running=false" -> [st EXCEPT !.running = FALSE]
      [] OTHER -> st

\* Go runs the deferred calls last-in first-out, on return and on panic alike
RECURSIVE UnwindReturnOnly(_, _, _, _)
UnwindReturnOnly(st, stack, orig, panicking) ==
    IF stack = <<>> \/ panicking THEN st
    ELSE UnwindReturnOnly(RunDeferred(st, stack[Len(stack)], orig),
                          SubSeq(stack, 1, Len(stack) - 1), orig, panicking)

RECURSIVE Unwind(_, _, _, _)
Unwind(st, stack, orig, panicking) ==
    IF stack = <<>> THEN st
    ELSE Unwind(RunDeferred(st, stack[Len(stack)], orig),
                SubSeq(stack, 1, Len(stack) - 1), orig, panicking)

\* New(), in a shell that left the terminal in one of ShellAttrs
AppInit ==
    /\ appPc = "new"
    /\ shellTTY \in ShellAttrs
    /\ termios = shellTTY
    /\ originalTTY = "nil"
    /\ altScreen = FALSE
    /\ cursorShown = TRUE
    /\ defers = <<>>
    /\ running = FALSE
    /\ quitClosed = FALSE
    /\ sigNotify = FALSE
    /\ sigChan = <<>>
    /\ renderChan = 0
    /\ hasScreen = FALSE
    /\ exitPath = "none"
    /\ quitCalls = 0
    /\ quitSignalSent = FALSE
    /\ ScreenIdle
    /\ ReaderIdle
    /\ DecoderIdle
    /\ DrawIdle
    /\ WidgetIdle
    /\ StyleIdle

\* Run ends, by return or by panic, from state st with the deferred calls stack
Ends(st, stack, path, panicking) ==
    LET end == Unwind(st, stack, originalTTY, panicking)
    IN /\ termios' = end.termios
       /\ altScreen' = end.altScreen
       /\ cursorShown' = end.cursorShown
       /\ running' = end.running
       /\ stopClosed' = end.stopClosed
       /\ sigNotify' = end.sigNotify
       /\ defers' = <<>>
       /\ exitPath' = path
       /\ appPc' = IF panicking THEN "crashed" ELSE "returned"

\* Run, up to "defer a.terminal.ExitRawMode()": EnterRawMode fails when the
\* attributes cannot be read or cannot be set
RunEnterRawMode ==
    /\ appPc = "new"
    /\ \E res \in {"getfail", "setfail", "ok"} :
          CASE res = "getfail" ->
                  /\ appPc' = "returned"
                  /\ exitPath' = "rawfail"
                  /\ UNCHANGED <<termios, originalTTY, defers>>
            [] res = "setfail" ->
                  /\ originalTTY' = termios
                  /\ appPc' = "returned"
                  /\ exitPath' = "rawfail"
                  /\ UNCHANGED <<termios, defers>>
            [] res = "ok" ->
                  /\ originalTTY' = termios
                  /\ termios' = "raw"
                  /\ defers' = <<"ExitRawMode">>
                  /\ appPc' = "raw"
                  /\ UNCHANGED exitPath
    /\ UNCHANGED <<shellTTY, altScreen, cursorShown, running, quitClosed, sigNotify,
                   sigChan, renderChan, hasScreen, quitCalls,
                   quitSignalSent>>
    /\ UNCHANGED <<screenVars, readerVars, decoderVars, drawVars, styleVars, widgetVars>>

\* Run, from EnterAltScreen to the first render: NewScreen fails when the
\* window size cannot be read; the init callback may panic
RunSetupReaderFirst ==
    /\ appPc = "raw"
    /\ \E res \in {"sizefail", "initpanic", "ok"} :
          CASE res = "sizefail" ->
               /\ Ends([Deferrable EXCEPT !.altScreen = TRUE, !.cursorShown = FALSE],
                       defers \o <<"ExitAltScreen", "ShowCursor">>,
                       "screenfail", FALSE)
               /\ rdPc' = "select"
               /\ UNCHANGED hasScreen
            [] res = "initpanic" ->
               /\ Ends([Deferrable EXCEPT !.altScreen = TRUE, !.cursorShown = FALSE,
                                          !.sigNotify = TRUE, !.running = TRUE],
                       defers \o <<"ExitAltScreen", "ShowCursor", "signal.Stop",
                                   "inputReader.Stop", "running=false">>,
                       "initpanic", TRUE)
               /\ hasScreen' = TRUE
               /\ rdPc' = "select"
            [] res = "ok" ->
               /\ altScreen' = TRUE
               /\ cursorShown' = FALSE
               /\ hasScreen' = TRUE
               /\ sigNotify' = TRUE
               /\ rdPc' = "select"
               /\ running' = TRUE
               /\ defers' = defers \o <<"ExitAltScreen", "ShowCursor", "signal.Stop",
                                        "inputReader.Stop", "running=false">>
               /\ appPc' = "loop"
               /\ UNCHANGED <<termios, stopClosed, exitPath>>
    /\ UNCHANGED <<shellTTY, originalTTY, quitClosed, sigChan, renderChan, quitCalls,
                   quitSignalSent>>
    /\ UNCHANGED <<rdData, rdPending, eventChan, received, readLog, nReads>>
    /\ UNCHANGED <<screenVars, decoderVars, drawVars, styleVars, widgetVars>>

RunSetup ==
    /\ appPc = "raw"
    /\ \E res \in {"sizefail", "initpanic", "ok"} :
          CASE res = "sizefail" ->
               /\ Ends([Deferrable EXCEPT !.altScreen = TRUE, !.cursorShown = FALSE],
                       defers \o <<"ExitAltScreen", "ShowCursor">>,
                       "screenfail", FALSE)
               /\ UNCHANGED <<hasScreen, rdPc>>
            [] res = "initpanic" ->
               /\ Ends([Deferrable EXCEPT !.altScreen = TRUE, !.cursorShown = FALSE,
                                          !.sigNotify = TRUE, !.running = TRUE],
                       defers \o <<"ExitAltScreen", "ShowCursor", "signal.Stop",
                                   "inputReader.Stop", "running=false">>,
                       "initpanic", TRUE)
               /\ hasScreen' = TRUE
               /\ rdPc' = "select"
            [] res = "ok" ->
               /\ altScreen' = TRUE
               /\ cursorShown' = FALSE
               /\ hasScreen' = TRUE
               /\ sigNotify' = TRUE
               /\ rdPc' = "select"
               /\ running' = TRUE
               /\ defers' = defers \o <<"ExitAltScreen", "ShowCursor", "signal.Stop",
                                        "inputReader.Stop", "running=false">>
               /\ appPc' = "loop"
               /\ UNCHANGED <<termios, stopClosed, exitPath>>
    /\ UNCHANGED <<shellTTY, originalTTY, quitClosed, sigChan, renderChan, quitCalls,
                   quitSignalSent>>
    /\ UNCHANGED <<rdData, rdPending, eventChan, received, readLog, nReads>>
    /\ UNCHANGED <<screenVars, decoderVars, drawVars, styleVars, widgetVars>>

\* "case <-a.quitChan": the quit callback, then return
LoopQuit ==
    /\ appPc = "loop"
    /\ quitClosed
    /\ quitCalls' = quitCalls + 1
    /\ UNCHANGED quitSignalSent
    /\ Ends(Deferrable, defers, "quit", FALSE)
    /\ UNCHANGED <<shellTTY, originalTTY, quitClosed, sigChan, renderChan, hasScreen>>
    /\ UNCHANGED <<rdPc, rdData, rdPending, eventChan, received, readLog, nReads>>
    /\ UNCHANGED <<screenVars, decoderVars, drawVars, styleVars, widgetVars>>

\* "case sig := <-sigChan": quit on SIGINT and SIGTERM, resize on SIGWINCH
LoopSignal ==
    /\ appPc = "loop"
    /\ Len(sigChan) > 0
    /\ sigChan' = Tail(sigChan)
    /\ UNCHANGED quitSignalSent
    /\ IF Head(sigChan) \in {"SIGINT", "SIGTERM"}
       THEN /\ quitCalls' = quitCalls + 1
            /\ Ends(Deferrable, defers, "signal", FALSE)
       ELSE UNCHANGED <<appPc, termios, altScreen, cursorShown, running, stopClosed,
                        sigNotify, defers, exitPath, quitCalls>>
    /\ UNCHANGED <<shellTTY, originalTTY, quitClosed, renderChan, hasScreen>>
    /\ UNCHANGED <<rdPc, rdData, rdPending, eventChan, received, readLog, nReads>>
    /\ UNCHANGED <<screenVars, decoderVars, drawVars, styleVars, widgetVars>>

\* "case event := <-a.inputReader.Events()": handleEvent.  A quit key calls
\* Quit, which closes quitChan (closing it again panics); any other event goes
\* to the root widget, whose handler may panic.
LoopEvent ==
    /\ appPc = "loop"
    /\ Len(eventChan) > 0
    /\ eventChan' = Tail(eventChan)
    /\ IF IsQuitKey(Head(eventChan))
       THEN IF running /\ quitClosed
            THEN /\ Ends(Deferrable, defers, "panic", TRUE)
                 /\ UNCHANGED quitClosed
            ELSE /\ quitClosed' = running
                 /\ UNCHANGED <<appPc, termios, altScreen, cursorShown, running,
                                stopClosed, sigNotify, defers, exitPath>>
       ELSE \E outcome \in {"handled", "panic"} :
               IF outcome = "panic"
               THEN /\ Ends(Deferrable, defers, "panic", TRUE)
                    /\ UNCHANGED quitClosed
               ELSE UNCHANGED <<appPc, termios, altScreen, cursorShown, running,
                                stopClosed, sigNotify, defers, exitPath, quitClosed>>
    /\ UNCHANGED <<shellTTY, originalTTY, sigChan, renderChan, hasScreen, quitCalls,
                   quitSignalSent>>
    /\ UNCHANGED <<rdPc, rdData, rdPending, received, readLog, nReads>>
    /\ UNCHANGED <<screenVars, decoderVars, drawVars, styleVars, widgetVars>>

\* "case <-a.renderChan": render
LoopRender ==
    /\ appPc = "loop"
    /\ renderChan > 0
    /\ renderChan' = renderChan - 1
    /\ UNCHANGED <<appPc, shellTTY, termios, originalTTY, altScreen, cursorShown,
                   defers, running, quitClosed, sigNotify, sigChan, hasScreen,
                   exitPath, quitCalls,
                   quitSignalSent>>
    /\ UNCHANGED <<screenVars, readerVars, decoderVars, drawVars, styleVars, widgetVars>>

\* "case <-tickChan": the tick callback, which may panic
LoopTick ==
    /\ appPc = "loop"
    /\ \E outcome \in {"handled", "panic"} :
          IF outcome = "panic"
          THEN Ends(Deferrable, defers, "panic", TRUE)
          ELSE UNCHANGED <<appPc, termios, altScreen, cursorShown, running,
                           stopClosed, sigNotify, defers, exitPath>>
    /\ UNCHANGED <<shellTTY, originalTTY, quitClosed, sigChan, renderChan, hasScreen,
                   quitCalls,
                   quitSignalSent>>
    /\ UNCHANGED <<rdPc, rdData, rdPending, eventChan, received, readLog, nReads>>
    /\ UNCHANGED <<screenVars, decoderVars, drawVars, styleVars, widgetVars>>

RequestRenderQueuesTwo ==
    /\ appPc = "loop"
    /\ renderChan' = IF renderChan < RenderChanCap + 1 THEN renderChan + 1 ELSE renderChan
    /\ UNCHANGED <<appPc, shellTTY, termios, originalTTY, altScreen, cursorShown,
                   defers, running, quitClosed, sigNotify, sigChan, hasScreen,
                   exitPath, quitCalls,
                   quitSignalSent>>
    /\ UNCHANGED <<screenVars, readerVars, decoderVars, drawVars, styleVars, widgetVars>>

\* RequestRender: "select { case a.renderChan <- struct{}{}: default: }"
RequestRender ==
    /\ appPc = "loop"
    /\ renderChan' = IF renderChan < RenderChanCap THEN renderChan + 1 ELSE renderChan
    /\ UNCHANGED <<appPc, shellTTY, termios, originalTTY, altScreen, cursorShown,
                   defers, running, quitClosed, sigNotify, sigChan, hasScreen,
                   exitPath, quitCalls,
                   quitSignalSent>>
    /\ UNCHANGED <<screenVars, readerVars, decoderVars, drawVars, styleVars, widgetVars>>

\* the Go run time delivers a signal to sigChan, or drops it when sigChan is full
SignalArrives ==
    /\ sigNotify
    /\ \E sig \in Signals :
          /\ sigChan' = IF Len(sigChan) < SigChanCap THEN Append(sigChan, sig) ELSE sigChan
          /\ quitSignalSent' = (quitSignalSent \/ sig \in {"SIGINT", "SIGTERM"})
    /\ UNCHANGED <<appPc, shellTTY, termios, originalTTY, altScreen, cursorShown,
                   defers, running, quitClosed, sigNotify, renderChan, hasScreen,
                   exitPath, quitCalls>>
    /\ UNCHANGED <<screenVars, readerVars, decoderVars, drawVars, styleVars, widgetVars>>

\* the reader decodes a key and sends it on eventChan
KeyArrives ==
    /\ rdPc = "select"
    /\ ~stopClosed
    /\ Len(eventChan) < EventChanCap
    /\ \E e \in AppKeys : eventChan' = Append(eventChan, e)
    /\ UNCHANGED <<rdPc, rdData, rdPending, stopClosed, received, readLog, nReads>>
    /\ UNCHANGED <<screenVars, appVars, decoderVars, drawVars, styleVars, widgetVars>>

AppNext ==
    \/ RunEnterRawMode
    \/ RunSetup
    \/ LoopQuit
    \/ LoopSignal
    \/ LoopEvent
    \/ LoopRender
    \/ LoopTick
    \/ RequestRender
    \/ SignalArrives
    \/ KeyArrives

AppSpec == AppInit /\ [][AppNext]_vars

\* Run makes progress, and select takes a case that stays ready: Go's select
\* chooses among the ready cases uniformly at random
AppLiveSpec ==
    /\ AppSpec
    /\ WF_vars(RunEnterRawMode)
    /\ WF_vars(RunSetup)
    /\ WF_vars(LoopQuit)
    /\ WF_vars(LoopSignal)
    /\ WF_vars(LoopEvent)
    /\ WF_vars(LoopRender)

----------------------------------------------------------------------------
\* Properties of the screen

Positions == {<<x, y>> : x \in 0..(width - 1), y \in 0..(height - 1)}

Flattened == Flatten(cells, width, height)

\* the positions where the flattened back buffer differs from the front image
Changed == {p \in Positions : ~CellEquals(Flattened[p[2]][p[1]], front[p[2]][p[1]])}

Count(toks, kind) == Cardinality({i \in DOMAIN toks : toks[i].t = kind})

NonEmptyImage(img) == \E p \in Positions : ~IsEmpty(img[p[2]][p[1]])

\* C1: when the terminal shows the front image, the stream one Render emits
\* leaves it showing the flattened back buffer, rune and rendition, at every
\* position.
C1_RenderRefinesTerminal ==
    [][(lastOp' = "Render" /\ tty.grid = Shown(front))
        => tty'.grid = Shown(Flatten(cells', width', height'))]_vars

C1_Witness ==
    /\ lastOp = "Render"
    /\ Count(out, "cup") >= 2
    /\ NonEmptyImage(front)
    /\ tty.grid = Shown(front)

\* C2: after every Render and every ForceRender the front image is the
\* flattened back buffer.
C2_FrontIsFlattened ==
    lastOp \in {"Render", "ForceRender"} => front = Flattened

C2_Witness ==
    /\ lastOp \in {"Render", "ForceRender"}
    /\ NonEmptyImage(front)
    /\ \E p \in Positions : ~IsEmpty(front[p[2]][p[1]]) /\ p[2] = height - 1

\* C3: a Render that follows a Render or a ForceRender with no buffer write
\* in between emits nothing at all.
C3_SecondRenderEmpty ==
    [][(synced /\ lastOp' = "Render") => out' = <<>>]_vars

C3_Witness ==
    /\ lastOp = "Render"
    /\ out = <<>>
    /\ synced
    /\ NonEmptyImage(front)

\* the longest style sequence: reset, two colours, seven attributes
LongestSequence ==
    Len(Sequence([FG |-> ColorRed, BG |-> ColorRed, Bold |-> TRUE, Dim |-> TRUE,
                  Italic |-> TRUE, Underline |-> TRUE, Blink |-> TRUE,
                  Reverse |-> TRUE, Strike |-> TRUE]))

\* C4: one Render emits one character per changed position, moves the cursor
\* only to changed positions, and its length is bounded by the number of
\* changed positions alone.
C4_OutputProportionalToChanges ==
    [][lastOp' = "Render" =>
        /\ Count(out', "chr") = Cardinality(Changed)
        /\ \A i \in DOMAIN out' :
              out'[i].t = "cup" => <<out'[i].p[2] - 1, out'[i].p[1] - 1>> \in Changed
        /\ Len(out') <= Cardinality(Changed) * (LongestSequence + 2) + 1
        /\ (Changed = {} => out' = <<>>)]_vars

C4_Witness ==
    /\ lastOp = "Render"
    /\ Count(out, "chr") = 1
    /\ Cardinality({p \in Positions : ~IsEmpty(front[p[2]][p[1]])}) >= 2

\* the cell the compositing rule selects at (x, y)
TopCell(x, y) ==
    LET nz == {z \in 0..(Depth - 1) : ~IsEmpty(cells[z][y][x])}
    IN IF nz = {} THEN EmptyCell
       ELSE cells[CHOOSE z \in nz : \A u \in nz : u <= z][y][x]

\* C5: Flatten returns at every position the non-empty cell of the highest
\* layer, or the empty cell when every layer is empty there.
C5_FlattenTopmostNonEmpty ==
    lastOp = "Flatten" =>
        \A p \in Positions : ret.image[p[2]][p[1]] = TopCell(p[1], p[2])

C5_Witness ==
    /\ lastOp = "Flatten"
    /\ \E p \in Positions :
          /\ ~IsEmpty(cells[0][p[2]][p[1]])
          /\ ~IsEmpty(cells[Depth - 1][p[2]][p[1]])
          /\ cells[0][p[2]][p[1]] # cells[Depth - 1][p[2]][p[1]]
          /\ ret.image[p[2]][p[1]] = cells[Depth - 1][p[2]][p[1]]

\* C6: with a coordinate out of range, Set, SetRune and SetStyle leave every
\* cell unchanged, Get returns the empty cell, and none of them faults.
C6_OutOfRangeIsNoOp ==
    [][lastOOB' =>
        /\ ~panicked'
        /\ (lastOp' \in {"Set", "SetRune", "SetStyle"} => cells' = cells)
        /\ (lastOp' = "Get" => ret'.cell = EmptyCell)]_vars

C6_Witness ==
    /\ lastOOB
    /\ lastOp \in {"Set", "SetRune", "SetStyle"}
    /\ \E p \in Positions : ~IsEmpty(cells[0][p[2]][p[1]])

\* C7: Flatten leaves every cell of every layer unchanged, and a second
\* Flatten with no write in between returns an equal image.
C7_FlattenHasNoEffect ==
    [][lastOp' = "Flatten" =>
        /\ cells' = cells
        /\ (lastOp = "Flatten" => ret' = ret)]_vars

C7_Witness ==
    /\ lastOp = "Flatten"
    /\ \E p \in Positions :
          ~IsEmpty(cells[0][p[2]][p[1]]) /\ ~IsEmpty(cells[Depth - 1][p[2]][p[1]])

----------------------------------------------------------------------------
\* Properties of the reader

\* the events the reads logged so far decode to, in order
RECURSIVE ExpectedEvents(_)
ExpectedEvents(log) ==
    IF log = <<>> THEN <<>>
    ELSE (CASE Head(log).kind = "data" -> parseInputEvents(Head(log).bytes)
            [] Head(log).kind = "error" -> <<ErrorEvent(Head(log).err)>>
            [] OTHER -> <<>>)
         \o ExpectedEvents(Tail(log))

IsPrefix(a, b) == Len(a) <= Len(b) /\ SubSeq(b, 1, Len(a)) = a

Sending == rdPc \in {"send", "sendErr"}

\* the reader has nothing left to decode or send
ReaderDrained == rdPc \in {"select", "read", "exited"} /\ eventChan = <<>>

\* C9: the consumer receives the events decoded from the bytes, in the order
\* the bytes were read: what it has received, followed by what is queued, is a
\* prefix of the decoded events, and is all of them once the reader has
\* nothing left to decode or send and the queue is empty.
C9_EventsInReadOrder ==
    /\ IsPrefix(received \o eventChan, ExpectedEvents(readLog))
    /\ (ReaderDrained => received = ExpectedEvents(readLog))

C9_Witness ==
    /\ ReaderDrained
    /\ Len(received) >= 4
    /\ \E i \in DOMAIN received : received[i].type = "error"
    /\ \E i \in DOMAIN received : received[i].Key = KeyEscape

\* C10: the queue never holds more than its capacity; a reader with an event
\* to send keeps that event until it is appended to the queue, which can
\* happen only when the queue has room, and it does happen once there is room.
C10_BoundedQueueBlocksReader ==
    /\ [](Len(eventChan) <= EventChanCap)
    /\ [][Sending =>
            \/ rdPc' = rdPc /\ rdPending' = rdPending
            \/ /\ Len(eventChan) < EventChanCap
               /\ eventChan' = Append(eventChan, rdPending)]_vars
    /\ ((Sending /\ Len(eventChan) < EventChanCap) ~> ~Sending)

C10_Witness ==
    /\ Sending
    /\ Len(eventChan) = EventChanCap
    /\ Len(received) >= 1

----------------------------------------------------------------------------
\* Properties of the application

RunEnded == appPc \in {"returned", "crashed"}

TerminalRestored == cursorShown /\ ~altScreen /\ termios = shellTTY

----------------------------------------------------------------------------
\* Properties of the reader: cancellation, end of stream, read errors

\* C11: after Reader.Stop the read loop eventually exits, whatever the reader
\* was doing (waiting for bytes, or waiting to enqueue an event).
C11_StopEndsReadLoop == stopClosed ~> (rdPc = "exited")

\* C12: when Read reports end-of-stream the read loop terminates: the
\* end-of-stream is the last thing it ever reads, and the loop is left.
C12_EOFEndsReadLoop ==
    \A i \in DOMAIN readLog :
        readLog[i].kind = "eof" => (i = Len(readLog) /\ rdPc \in {"select", "exited"})

ErrorEvents(events) == SelectSeq(events, LAMBDA e : e.type = "error")

ErrorReads == SelectSeq(readLog, LAMBDA r : r.kind = "error")

\* the events readLoop has sent or is about to send
Handed == received \o eventChan \o (IF Sending THEN <<rdPending>> ELSE <<>>)

\* C13: a read error other than end-of-stream puts exactly one Error event
\* carrying that error on the event stream, in order with the key events
\* around it, and the reader goes on: it exits only when stopped.
C13_ReadErrorBecomesOneEvent ==
    /\ Len(ErrorEvents(Handed)) = Len(ErrorReads)
    /\ \A i \in DOMAIN ErrorReads : ErrorEvents(Handed)[i] = ErrorEvent(ErrorReads[i].err)
    /\ IsPrefix(Handed, ExpectedEvents(readLog))
    /\ (rdPc = "exited" => stopClosed)

C13_Witness ==
    /\ Len(received) >= 3
    /\ \E i \in 2..(Len(received) - 1) :
          /\ received[i].type = "error"
          /\ received[i - 1].type = "key"
          /\ received[i + 1].type = "key"
    /\ rdPc # "exited"

----------------------------------------------------------------------------
\* Properties of the renderer on a failing output stream

\* C14: when the write of the escape-code stream fails during Render or
\* ForceRender, the caller gets that error as the call's result.
C14_WriteFailureReported ==
    (lastOp \in {"Render", "ForceRender"} /\ writeErr # "nil")
        => ret = [kind |-> "error", err |-> writeErr]

----------------------------------------------------------------------------
\* Properties of the application: failures during setup

SetupFailed == exitPath \in {"rawfail", "screenfail"}

\* C15: if entering raw mode fails, Run returns without entering the
\* alternate screen, hiding the cursor, starting the reader or running the
\* event loop; if the window-size query fails, Run returns without starting
\* the reader or the event loop; in both cases Run is over and tries nothing
\* again.
C15_SetupFailureAborts ==
    /\ [](SetupFailed => (appPc = "returned" /\ rdPc = "idle" /\ ~running /\ ~sigNotify))
    /\ [][exitPath' = "rawfail" =>
            (~altScreen /\ ~altScreen' /\ cursorShown /\ cursorShown' /\ ~hasScreen')]_vars
    /\ [][SetupFailed => UNCHANGED <<appVars, readerVars>>]_vars

C15_Witness ==
    /\ exitPath = "screenfail"
    /\ appPc = "returned"
    /\ originalTTY # "nil"
    /\ rdPc = "idle"

----------------------------------------------------------------------------
\* Properties of the decoder

\* a turn of parseInput's loop has been taken
Decoded1 == dcTurns > 0

\* C16: each decode step on a non-empty buffer reports a consumed count
\* between 1 and the number of remaining bytes and returns at most one event;
\* the buffer shrinks by that count, so a chunk of n bytes is used up, whole,
\* within n steps.  (An index outside the buffer has no value in the model:
\* At is applied to every buffer DecoderInit draws.)
C16_DecodeStepConsumes ==
    /\ Len(dcData) + dcTurns <= Len(dcInput)
    /\ dcData = From(dcInput, Len(dcInput) - Len(dcData))
    /\ Decoded1 =>
          /\ dcConsumed \in 1..Len(dcBefore)
          /\ dcData = From(dcBefore, dcConsumed)
          /\ dcEvent.type \in {"nil", "key", "error"}

C16_Witness ==
    /\ dcData = <<>>
    /\ dcTurns = 3
    /\ dcInput = <<27, 91, 195>>
    /\ dcConsumed = 1

\* the key each final byte stands for: A B C D H F
FinalKey(f) ==
    CASE f = 65 -> KeyUp
      [] f = 66 -> KeyDown
      [] f = 67 -> KeyRight
      [] f = 68 -> KeyLeft
      [] f = 72 -> KeyHome
      [] f = 70 -> KeyEnd

\* bit i of m
Bit(m, i) == (m \div (2 ^ i)) % 2 = 1

HasMod(e, mod) == BitAnd(e.Modifier, mod) # 0

\* C17: ESC [ 1 ; n final, for n in 2..8 and final in A B C D H F, decodes to
\* the final byte's key with Shift, Alt and Ctrl present exactly when bits 0,
\* 1 and 2 of n-1 are set, and consumes 6 bytes; ESC [ final decodes to the
\* key with no modifier.
C17_CsiModifierDecoded ==
    Decoded1 =>
       \A f \in CursorFinals :
          /\ \A n \in 2..8 :
                dcBefore = <<27, 91, 49, 59, 48 + n, f>> =>
                   /\ dcEvent.type = "key"
                   /\ dcEvent.Key = FinalKey(f)
                   /\ HasMod(dcEvent, ModShift) = Bit(n - 1, 0)
                   /\ HasMod(dcEvent, ModAlt) = Bit(n - 1, 1)
                   /\ HasMod(dcEvent, ModCtrl) = Bit(n - 1, 2)
                   /\ dcEvent.Modifier \in 0..(ModShift + ModAlt + ModCtrl)
                   /\ dcConsumed = 6
          /\ dcBefore \in {<<27, 91, f>>, <<27, 91, 49, f>>} =>
                   /\ dcEvent = KeyEvent(FinalKey(f), 0, ModNone)
                   /\ dcConsumed = Len(dcBefore)

C17_Witness ==
    /\ dcBefore = <<27, 91, 49, 59, 53, 65>>
    /\ dcEvent = KeyEvent(KeyUp, 0, ModCtrl)
    /\ dcConsumed = 6
    /\ dcData = <<>>

\* C18: a byte b at the head of the buffer decodes, consuming 1 byte, as:
\* 0x00 Ctrl+Space; 0x09 Tab; 0x0A and 0x0D Enter; 0x7F Backspace; any other b
\* in 1..26 the rune 'a'+b-1 with Ctrl.
C18_ControlBytesDecoded ==
    Decoded1 =>
       LET b == dcBefore[1]
       IN /\ b = 0 => dcEvent = KeyEvent(KeySpace, 0, ModCtrl)
          /\ b = 9 => dcEvent = KeyEvent(KeyTab, 0, ModNone)
          /\ b \in {10, 13} => dcEvent = KeyEvent(KeyEnter, 0, ModNone)
          /\ b = 127 => dcEvent = KeyEvent(KeyBackspace, 0, ModNone)
          /\ b \in (1..26) \ {9, 10, 13} => dcEvent = KeyEvent(KeyRune, 96 + b, ModCtrl)
          /\ b \in (0..26) \cup {127} => dcConsumed = 1

C18_Witness ==
    /\ dcBefore = <<3>>
    /\ dcEvent = KeyEvent(KeyRune, 99, ModCtrl)
    /\ dcConsumed = 1
    /\ dcInput = <<3>>

\* C19: a well-formed UTF-8 encoding of a code point (first byte at least
\* 0x20 and not 0x7F) that is whole at the head of the buffer decodes to
\* Key(Rune, code point) with no modifier and consumes the encoding's length.
C19_Utf8RuneDecoded ==
    Decoded1 =>
       \A cp \in CodePoints :
          IsPrefix(Utf8(cp), dcBefore) =>
             /\ dcEvent = KeyEvent(KeyRune, cp, ModNone)
             /\ dcConsumed = Len(Utf8(cp))

C19_Witness ==
    /\ dcBefore = <<195, 169>>
    /\ dcEvent = KeyEvent(KeyRune, 233, ModNone)
    /\ dcConsumed = 2

\* the length of the form a leading byte announces: 110xxxxx two bytes,
\* 1110xxxx three, 11110xxx four
Announced(b) ==
    IF b \in 192..223 THEN 2
    ELSE IF b \in 224..239 THEN 3
    ELSE IF b \in 240..247 THEN 4
    ELSE 1

\* C20: when the leading byte announces a 2-, 3- or 4-byte form and fewer
\* bytes remain in the buffer, the step returns Key(Rune) whose rune is the
\* leading byte and consumes exactly 1 byte.
C20_TruncatedRuneIsLeadByte ==
    Decoded1 =>
       LET b == dcBefore[1]
       IN (Announced(b) > 1 /\ Len(dcBefore) < Announced(b)) =>
             /\ dcEvent = KeyEvent(KeyRune, b, ModNone)
             /\ dcConsumed = 1

C20_Witness ==
    /\ dcBefore = <<226, 130>>
    /\ dcEvent = KeyEvent(KeyRune, 226, ModNone)
    /\ dcConsumed = 1
    /\ dcData = <<130>>

\* C21: a buffer whose only remaining byte is ESC decodes to Key(Escape)
\* with no modifier and 1 byte consumed, in that same step.
C21_LoneEscapeDecoded ==
    (Decoded1 /\ dcBefore = <<27>>) =>
        /\ dcEvent = KeyEvent(KeyEscape, 0, ModNone)
        /\ dcConsumed = 1
        /\ dcData = <<>>

C21_Witness ==
    /\ dcInput = <<97, 27>>
    /\ dcBefore = <<27>>
    /\ dcEvent = KeyEvent(KeyEscape, 0, ModNone)
    /\ dcTurns = 2

\* the members of a modifier value
ModSet(m) == {mod \in {ModShift, ModAlt, ModCtrl} : BitAnd(m, mod) # 0}

\* C22: for ESC followed by a byte other than '[' and 'O', the step returns
\* the event that decoding the bytes after ESC gives, with Alt added to its
\* modifiers and the others kept, and consumes that decode's count plus 1.
C22_AltPrefixAddsAlt ==
    (Decoded1 /\ Len(dcBefore) >= 2 /\ dcBefore[1] = 27 /\ dcBefore[2] \notin {91, 79}) =>
        LET inner == parseSequence(Tail(dcBefore))
        IN /\ dcEvent.type = "key"
           /\ dcEvent.Key = inner.ev.Key
           /\ dcEvent.Rune = inner.ev.Rune
           /\ ModSet(dcEvent.Modifier) = ModSet(inner.ev.Modifier) \cup {ModAlt}
           /\ dcConsumed = inner.n + 1

C22_Witness ==
    /\ dcBefore = <<27, 3>>
    /\ dcEvent = KeyEvent(KeyRune, 99, ModCtrl + ModAlt)
    /\ dcConsumed = 2

\* the key of ESC [ n ~
TildeKey(n) ==
    CASE n \in {1, 7} -> KeyHome
      [] n = 2 -> KeyInsert
      [] n = 3 -> KeyDelete
      [] n \in {4, 8} -> KeyEnd
      [] n = 5 -> KeyPageUp
      [] n = 6 -> KeyPageDown
      [] n \in 11..15 -> KeyF1 + (n - 11)
      [] n \in 17..21 -> KeyF6 + (n - 17)
      [] n = 23 -> KeyF11
      [] n = 24 -> KeyF12
      [] OTHER -> KeyEscape

\* C23: ESC [ n ~ decodes, consuming the whole sequence, to the key of the
\* table (Home 1 7, Insert 2, Delete 3, End 4 8, PageUp 5, PageDown 6, F1..F5
\* 11..15, F6..F10 17..21, F11 23, F12 24) with the modifier of an optional
\* ;m parameter (none when absent), and to Key(Escape) for any other n.
C23_TildeSequenceDecoded ==
    Decoded1 =>
       \A n \in 0..25 :
          /\ dcBefore = <<27, 91>> \o Digits(n) \o <<126>> =>
                /\ dcEvent = KeyEvent(TildeKey(n), 0, ModNone)
                /\ dcConsumed = Len(dcBefore)
          /\ \A m \in {2, 5, 8} :
                dcBefore = <<27, 91>> \o Digits(n) \o <<59, 48 + m, 126>> =>
                   /\ dcEvent.type = "key"
                   /\ dcEvent.Key = TildeKey(n)
                   /\ dcEvent.Rune = 0
                   /\ TildeKey(n) # KeyEscape =>
                         /\ HasMod(dcEvent, ModShift) = Bit(m - 1, 0)
                         /\ HasMod(dcEvent, ModAlt) = Bit(m - 1, 1)
                         /\ HasMod(dcEvent, ModCtrl) = Bit(m - 1, 2)
                         /\ dcEvent.Modifier \in 0..(ModShift + ModAlt + ModCtrl)
                   /\ dcConsumed = Len(dcBefore)

C23_Witness ==
    /\ dcBefore = <<27, 91, 50, 52, 59, 53, 126>>
    /\ dcEvent = KeyEvent(KeyF12, 0, ModCtrl)
    /\ dcConsumed = 7

\* the key of ESC O x
Ss3Key(x) ==
    CASE x = 65 -> KeyUp
      [] x = 66 -> KeyDown
      [] x = 67 -> KeyRight
      [] x = 68 -> KeyLeft
      [] x = 72 -> KeyHome
      [] x = 70 -> KeyEnd
      [] x \in 80..83 -> KeyF1 + (x - 80)

\* C24: with at least 3 bytes in the buffer, ESC O x for x in A B C D H F P Q
\* R S decodes to Up, Down, Right, Left, Home, End, F1, F2, F3, F4 with no
\* modifier and consumes exactly 3 bytes.
C24_Ss3Decoded ==
    (/\ Decoded1
     /\ Len(dcBefore) >= 3
     /\ dcBefore[1] = 27
     /\ dcBefore[2] = 79
     /\ dcBefore[3] \in Ss3Finals) =>
        /\ dcEvent = KeyEvent(Ss3Key(dcBefore[3]), 0, ModNone)
        /\ dcConsumed = 3
        /\ dcData = From(dcBefore, 3)

C24_Witness ==
    /\ dcBefore = <<27, 79, 83, 97>>
    /\ dcEvent = KeyEvent(KeyF4, 0, ModNone)
    /\ dcData = <<97>>

\* ESC [ params final with a final byte outside the recognised set
UnknownCsi(data) ==
    /\ data \in FinalChunks
    /\ data[Len(data)] \notin CsiFinals

\* ESC O x with x outside the recognised set
UnknownSs3(data) ==
    /\ Len(data) = 3
    /\ data[1] = 27
    /\ data[2] = 79
    /\ data[3] \notin Ss3Finals

\* C25: a CSI or SS3 sequence whose final byte is not recognised decodes to
\* Key(Escape), never to an Error event.
C25_UnknownFinalIsEscape ==
    (Decoded1 /\ (UnknownCsi(dcBefore) \/ UnknownSs3(dcBefore))) =>
        /\ dcEvent.type = "key"
        /\ dcEvent.Key = KeyEscape
        /\ dcEvent.Modifier = ModNone

C25_Witness ==
    /\ dcBefore = <<27, 91, 49, 59, 53, 120>>
    /\ dcEvent = KeyEvent(KeyEscape, 0, ModNone)
    /\ dcConsumed = 1

\* the runes a stream prints, line breaks left out
PrintedRunes(toks) ==
    LET chrs == SelectSeq(toks, LAMBDA t : t.t = "chr" /\ t.p[1] \notin {13, 10})
    IN [i \in DOMAIN chrs |-> chrs[i].p[1]]

\* the runes of an image, row by row
RowMajorRunes(img) ==
    [i \in 1..(width * height) |-> img[(i - 1) \div width][(i - 1) % width].Rune]

\* C26: one ForceRender emits, from the home position and row by row, the
\* character of every cell of the flattened back buffer (width * height of
\* them), whatever the front image holds, also when the front image already
\* equals the flattened back buffer; the terminal then shows that image.
C26_ForceRenderEmitsEveryCell ==
    [][lastOp' = "ForceRender" =>
        /\ Len(out') >= 1
        /\ out'[1] = CursorHome
        /\ Count(out', "cup") = 1
        /\ PrintedRunes(out') = RowMajorRunes(Flattened)
        /\ Len(PrintedRunes(out')) = width * height
        /\ Count(out', "chr") = width * height + 2 * (height - 1)
        /\ tty'.grid = Shown(Flattened)]_vars

C26_Witness ==
    /\ lastOp = "ForceRender"
    /\ nCalls = MaxCalls
    /\ NonEmptyImage(front)
    /\ Len(PrintedRunes(out)) = width * height

\* every cell of every layer of the back buffer is c
AllCells(c) ==
    \A z \in 0..(Depth - 1) : \A p \in Positions : cells[z][p[2]][p[1]] = c

\* C28: after Clear every cell of every layer is the empty cell and the
\* flattened image is empty at every position; after Fill every cell of
\* every layer is the cell it was given.
C28_ClearAndFillCoverEveryLayer ==
    /\ lastOp = "Clear" =>
          /\ AllCells(EmptyCell)
          /\ \A p \in Positions : Flattened[p[2]][p[1]] = EmptyCell
    /\ lastOp = "Fill" => \E c \in SetCells : AllCells(c)

C28_Witness ==
    /\ lastOp = "Clear"
    /\ nCalls = MaxCalls
    /\ NonEmptyImage(front)
    /\ AllCells(EmptyCell)

\* C27: after DrawString(x, y, z, text, style) the k-th code point of text
\* (k from 0) is in column x+k of row y of layer z, with the style given,
\* for every column inside the buffer.
C27_DrawStringByCodePoint ==
    lastOp = "DrawString" =>
        \A k \in 0..(Len(drawArgs.text) - 1) :
            drawArgs.x + k < width =>
                cells[drawArgs.z][drawArgs.y][drawArgs.x + k]
                    = NewCell(drawArgs.text[k + 1], drawArgs.style)

\* C29: RequestRender can always be taken while the loop runs (it never
\* waits), at most one render request is queued at any time, a RequestRender
\* made while one is queued leaves exactly one queued, and the loop's render
\* case takes that one request and leaves none.
C29_RenderRequestsCoalesce ==
    /\ [](renderChan \in {0, 1})
    /\ [](appPc = "loop" => ENABLED RequestRender)
    /\ [][(RequestRender /\ renderChan = 1) => renderChan' = 1]_vars
    /\ [][RequestRender => renderChan' = 1]_vars
    /\ [][LoopRender => (renderChan = 1 /\ renderChan' = 0)]_vars

C29_Witness ==
    /\ appPc = "loop"
    /\ renderChan = 1
    /\ ENABLED RequestRender
    /\ ENABLED LoopRender

\* the fields in which two styles differ
Differ(s, t) == {f \in DOMAIN s : s[f] # t[f]}

\* C30: s.Equals(other) is true exactly when foreground, background and the
\* seven attributes of s and other are all equal: DefaultStyle equals
\* DefaultStyle, and a style that differs from s in any single attribute or
\* colour is not equal to s.
C30_StyleEqualityIsStructural ==
    eqRet # NoResult =>
        /\ eqRet.v = (Differ(eqS, eqOther) = {})
        /\ (eqS = DefaultStyle /\ eqOther = DefaultStyle) => eqRet.v = TRUE
        /\ Cardinality(Differ(eqS, eqOther)) = 1 => eqRet.v = FALSE
        /\ DOMAIN eqS = {"FG", "BG"} \cup StyleAttrs

C30_Witness ==
    /\ eqS = DefaultStyle
    /\ eqOther = [DefaultStyle EXCEPT !.Strike = TRUE]
    /\ eqRet = [kind |-> "bool", v |-> FALSE]

\* the changed positions in row-major order
ChangedSeq ==
    SelectSeq([i \in 1..(width * height) |-> <<(i - 1) % width, (i - 1) \div width>>],
              LAMBDA p : p \in Changed)

\* what the claim has Render emit for the k-th changed position: a cursor
\* move unless it is just right of the previous changed position, a style
\* sequence when it is the first or its style differs from the previous
\* changed cell's, and the character
FrameFor(k) ==
    LET p == ChangedSeq[k]
        cell == Flattened[p[2]][p[1]]
        q == ChangedSeq[k - 1]
        adjacent == k > 1 /\ q[2] = p[2] /\ q[1] + 1 = p[1]
        sameStyle == k > 1 /\ Flattened[q[2]][q[1]].Style = cell.Style
    IN (IF adjacent THEN <<>> ELSE <<[t |-> "cup", p |-> <<p[2] + 1, p[1] + 1>>]>>)
       \o (IF sameStyle THEN <<>> ELSE Sequence(cell.Style))
       \o <<Chr(cell.Rune)>>

RECURSIVE FramesUpTo(_)
FramesUpTo(k) == IF k = 0 THEN <<>> ELSE FramesUpTo(k - 1) \o FrameFor(k)

\* C31: the stream of one Render is, for the changed cells in row-major
\* order, a cursor move to (row y+1, col x+1) exactly when the cell is not
\* just right of the previous changed cell on the same row, a style sequence
\* exactly when it is the first changed cell or its style differs from the
\* last one emitted, and the character; then one reset when anything was
\* written.  One changed cell alone gives one move, one style sequence, one
\* character and the reset.
C31_RenderStreamShape ==
    [][lastOp' = "Render" =>
        /\ out' = FramesUpTo(Len(ChangedSeq))
                  \o (IF Changed = {} THEN <<>> ELSE <<StyleReset>>)
        /\ Cardinality(Changed) = 1 =>
              LET p == ChangedSeq[1]
                  cell == Flattened[p[2]][p[1]]
              IN /\ Count(out', "cup") = 1
                 /\ Count(out', "chr") = 1
                 /\ Len(out') = 1 + Len(Sequence(cell.Style)) + 1 + 1]_vars

C31_Witness ==
    /\ lastOp = "Render"
    /\ Count(out, "cup") = 1
    /\ Count(out, "chr") = 2
    /\ Cardinality({i \in DOMAIN out : out[i] = StyleReset}) = 3

\* a key event that carries the rune r and no modifier
RuneKey(r) == KeyEvent(KeyRune, r, ModNone)

\* C32: the reader holds only bytes of the chunk it read last, and the events
\* received for a sequence of chunks are the events of each chunk decoded on
\* its own, one after the other: ESC [ A split after ESC gives Escape, '[',
\* 'A' (not Up), and 'a' 0xC3 0xA9 split after 0xC3 gives 'a' and the two
\* bytes as runes (not U+00E9).
C32_NoCarryOverBetweenReads ==
    /\ rdPc \in {"parse", "send"} =>
          LET chunk == readLog[Len(readLog)].bytes
          IN \E k \in 0..Len(chunk) : rdData = From(chunk, k)
    /\ rdPc \in {"select", "read"} /\ readLog # <<>> /\ readLog[Len(readLog)].kind = "data"
          => rdData = <<>>
    /\ ReaderDrained => received = ExpectedEvents(readLog)
    /\ (ReaderDrained /\ readLog = <<ReadData(<<27>>), ReadData(<<91, 65>>)>>) =>
          received = <<KeyEvent(KeyEscape, 0, ModNone), RuneKey(91), RuneKey(65)>>
    /\ (ReaderDrained /\ readLog = <<ReadData(<<97, 195>>), ReadData(<<169>>)>>) =>
          received = <<RuneKey(97), RuneKey(195), RuneKey(169)>>

C32_Witness ==
    /\ ReaderDrained
    /\ readLog = <<ReadData(<<27>>), ReadData(<<91, 65>>)>>
    /\ received = <<KeyEvent(KeyEscape, 0, ModNone), RuneKey(91), RuneKey(65)>>
    /\ received # parseInputEvents(<<27, 91, 65>>)

\* C33: ESC [ 1 ; n f for f in P Q R S and n in 2..8 decodes to F1..F4 with
\* Shift, Alt and Ctrl present exactly when bits 0, 1 and 2 of n-1 are set,
\* and consumes the 6 bytes.
C33_CsiFunctionKeyModifier ==
    Decoded1 =>
       \A f \in 80..83 : \A n \in 2..8 :
          dcBefore = <<27, 91, 49, 59, 48 + n, f>> =>
             /\ dcEvent.type = "key"
             /\ dcEvent.Key = KeyF1 + (f - 80)
             /\ HasMod(dcEvent, ModShift) = Bit(n - 1, 0)
             /\ HasMod(dcEvent, ModAlt) = Bit(n - 1, 1)
             /\ HasMod(dcEvent, ModCtrl) = Bit(n - 1, 2)
             /\ dcConsumed = 6

CtrlKey(r) == KeyEvent(KeyRune, r, ModCtrl)

\* where the word before the cursor starts: the least j such that the runes
\* between j and the cursor are non-spaces followed by spaces
WordStart(value, cursor) ==
    CHOOSE j \in 0..cursor :
        /\ \E m \in j..cursor :
              /\ \A i \in (j + 1)..m : value[i] # 32
              /\ \A i \in (m + 1)..cursor : value[i] = 32
        /\ \A k \in 0..(j - 1) :
              ~\E m \in k..cursor :
                    /\ \A i \in (k + 1)..m : value[i] # 32
                    /\ \A i \in (m + 1)..cursor : value[i] = 32

\* C35: in a focused TextInput, Ctrl+A moves the cursor home, Ctrl+E to the
\* end, Ctrl+K deletes from the cursor to the end, Ctrl+U from the start to the
\* cursor, Ctrl+W the word before the cursor; none of them inserts its letter.
C35_CtrlKeysEdit ==
    [][tiFocused =>
        /\ tiEvent' = CtrlKey(97) => tiValue' = tiValue /\ tiCursor' = 0
        /\ tiEvent' = CtrlKey(101) => tiValue' = tiValue /\ tiCursor' = Len(tiValue)
        /\ tiEvent' = CtrlKey(107) =>
              tiValue' = SubSeq(tiValue, 1, tiCursor) /\ tiCursor' = tiCursor
        /\ tiEvent' = CtrlKey(117) => tiValue' = From(tiValue, tiCursor) /\ tiCursor' = 0
        /\ tiEvent' = CtrlKey(119) =>
              /\ tiValue' = SubSeq(tiValue, 1, WordStart(tiValue, tiCursor))
                                \o From(tiValue, tiCursor)
              /\ tiCursor' = WordStart(tiValue, tiCursor)]_vars

\* C36: handling a quit key when the quit channel is already closed neither
\* faults nor reopens it: the loop goes on with the channel closed, and the
\* quit callback runs at most once in a run.
C36_SecondQuitIsSafe ==
    /\ [][(/\ appPc = "loop"
           /\ quitClosed
           /\ Len(eventChan) > 0
           /\ IsQuitKey(Head(eventChan))
           /\ eventChan' = Tail(eventChan))
          => (appPc' = "loop" /\ quitClosed' /\ exitPath' = exitPath)]_vars
    /\ [](quitCalls <= 1)


\* C37: a SIGINT or SIGTERM sent while the loop is running is never lost: Run
\* ends, also when a resize signal was waiting in the signal buffer.
C37_QuitSignalNeverLost ==
    (quitSignalSent /\ appPc = "loop") ~> (appPc # "loop")

\* C38: a successful ExitRawMode puts back the attributes the terminal had
\* before raw mode was first entered, however many times EnterRawMode was
\* called; when raw mode was never entered it changes nothing.
C38_ExitRestoresFirstAttributes ==
    [][(lastOp' = "ExitRawMode" /\ ret' = ErrorRet("nil"))
       => IF originalTTY = NilTermios THEN termios' = termios ELSE termios' = shellTTY]_vars

\* C39: the widget Focused() returns, if any, has its focused flag set, and no
\* other widget in the manager's list has.
C39_FocusedFlagAgrees ==
    /\ Focused # "nil" => wFocused[Focused]
    /\ \A i \in 1..Len(fmWidgets) : fmWidgets[i] # Focused => ~wFocused[fmWidgets[i]]

\* C40: a decode step that starts at a byte of 0x80 or more consumes, after
\* that byte, only continuation bytes (0x80..0xBF): a following byte that is
\* not one is left in the buffer for the next step.
C40_OnlyContinuationBytesAbsorbed ==
    (Decoded1 /\ dcBefore[1] >= 128) =>
        \A i \in 2..dcConsumed : dcBefore[i] \in 128..191

====
